---- MODULE Spec2Model ----
(***************************************************************************)
(* A model of the conversational-turn orchestrator (CognitiveCycle), its   *)
(* skill ledger (SkillSystem) and the rule-based responder                 *)
(* (TextAnalyzer / ResponseGenerator / OnlineBrain).                       *)
(*                                                                         *)
(* Texts are sequences of Unicode code points, so that keyword search,     *)
(* lower-casing, stripping, the arithmetic patterns and the formatting of  *)
(* the responses are computed rather than assumed.  Ints are of any size   *)
(* and floats are IEEE 754 doubles, rounded as Python rounds them.         *)
(***************************************************************************)
EXTENDS Integers, Sequences, FiniteSets, TLC

VARIABLES
    cycle_count,       \* CognitiveCycle.cycle_count
    working_memory,    \* CognitiveCycle.working_memory: entries {role, content}
    memory,            \* CognitiveCycle.memory: the episodes
    emotion,           \* CognitiveCycle.emotion: the affect state
    skills,            \* SkillSystem.skills: name -> Skill
    total_experience,  \* SkillSystem.total_experience
    current_cycle,     \* SkillSystem.current_cycle
    topics,            \* CognitiveCycle.user_profile["topics"]
    client,            \* CognitiveCycle.client is set (a model client is configured)
    response,          \* what the last call returned, ValueError when it raised that
    last_call,         \* the last call: operation, arguments, what it did
    warmup,            \* scripted turns still to come before the free ones
    calls              \* number of free calls made

vars ==
    << cycle_count, working_memory, memory, emotion, skills, total_experience,
       current_cycle, topics, client, response, last_call, warmup, calls >>

(***************************************************************************)
(* Text primitives (Python str and re).                                    *)
(***************************************************************************)

SetMin(S) ==
    CHOOSE x \in S : \A y \in S : x <= y

SetMax(S) ==
    CHOOSE x \in S : \A y \in S : y <= x

\* the only element of a set of one element
Only(S) ==
    CHOOSE x \in S : TRUE

\* str.isspace / regex \s
WS ==
    {9, 10, 11, 12, 13, 28, 29, 30, 31, 32, 133, 160, 5760}
        \cup (8192..8202) \cup {8232, 8233, 8239, 8287, 12288}

IsSpace(c) ==
    c \in WS

\* the code points of the digit zero of each script (Unicode category Nd); the
\* digits 1 to 9 of the script follow it
DIGIT_ZEROS ==
    {48, 1632, 1776, 1984, 2406, 2534, 2662, 2790, 2918, 3046, 3174, 3302, 3430,
     3558, 3664, 3792, 3872, 4160, 4240, 6112, 6160, 6470, 6608, 6784, 6800, 6992,
     7088, 7232, 7248, 42528, 43216, 43264, 43472, 43504, 43600, 44016, 65296,
     66720, 68912, 69734, 69872, 69942, 70096, 70384, 70736, 70864, 71248, 71360,
     71472, 71904, 72016, 72784, 73040, 73120, 92768, 92864, 93008, 120782,
     120792, 120802, 120812, 120822, 123200, 123632, 125264, 130032}

\* regex \d
IsDigit(c) ==
    \/ c \in 48..57
    \/ c >= 1632 /\ \E z \in DIGIT_ZEROS : c \in z..(z + 9)

\* the value int() gives the digit c
DigitValue(c) ==
    IF c \in 48..57 THEN c - 48
    ELSE c - (CHOOSE z \in DIGIT_ZEROS : c \in z..(z + 9))

\* regex [а-яёa-z] applied to lower-cased text
IsLetter(c) ==
    c \in 97..122 \/ c \in 1072..1103 \/ c = 1105

\* str.lower() of one character, Unicode 14: <<first, last, step, shift>> says that
\* the code points first, first + step, ..., last are moved by shift; U+0130 is
\* apart, it becomes two characters
LOWER_RANGES ==
    <<
      <<65, 90, 1, 32>>, <<192, 214, 1, 32>>, <<216, 222, 1, 32>>, <<256, 302, 2, 1>>,
      <<306, 310, 2, 1>>, <<313, 327, 2, 1>>, <<330, 374, 2, 1>>,
      <<376, 376, 1, -121>>, <<377, 381, 2, 1>>, <<385, 385, 1, 210>>,
      <<386, 388, 2, 1>>, <<390, 390, 1, 206>>, <<391, 391, 1, 1>>,
      <<393, 394, 1, 205>>, <<395, 395, 1, 1>>, <<398, 398, 1, 79>>,
      <<399, 399, 1, 202>>, <<400, 400, 1, 203>>, <<401, 401, 1, 1>>,
      <<403, 403, 1, 205>>, <<404, 404, 1, 207>>, <<406, 406, 1, 211>>,
      <<407, 407, 1, 209>>, <<408, 408, 1, 1>>, <<412, 412, 1, 211>>,
      <<413, 413, 1, 213>>, <<415, 415, 1, 214>>, <<416, 420, 2, 1>>,
      <<422, 422, 1, 218>>, <<423, 423, 1, 1>>, <<425, 425, 1, 218>>,
      <<428, 428, 1, 1>>, <<430, 430, 1, 218>>, <<431, 431, 1, 1>>,
      <<433, 434, 1, 217>>, <<435, 437, 2, 1>>, <<439, 439, 1, 219>>,
      <<440, 440, 1, 1>>, <<444, 444, 1, 1>>, <<452, 452, 1, 2>>, <<453, 453, 1, 1>>,
      <<455, 455, 1, 2>>, <<456, 456, 1, 1>>, <<458, 458, 1, 2>>, <<459, 475, 2, 1>>,
      <<478, 494, 2, 1>>, <<497, 497, 1, 2>>, <<498, 500, 2, 1>>, <<502, 502, 1, -97>>,
      <<503, 503, 1, -56>>, <<504, 542, 2, 1>>, <<544, 544, 1, -130>>,
      <<546, 562, 2, 1>>, <<570, 570, 1, 10795>>, <<571, 571, 1, 1>>,
      <<573, 573, 1, -163>>, <<574, 574, 1, 10792>>, <<577, 577, 1, 1>>,
      <<579, 579, 1, -195>>, <<580, 580, 1, 69>>, <<581, 581, 1, 71>>,
      <<582, 590, 2, 1>>, <<880, 882, 2, 1>>, <<886, 886, 1, 1>>, <<895, 895, 1, 116>>,
      <<902, 902, 1, 38>>, <<904, 906, 1, 37>>, <<908, 908, 1, 64>>,
      <<910, 911, 1, 63>>, <<913, 929, 1, 32>>, <<931, 939, 1, 32>>,
      <<975, 975, 1, 8>>, <<984, 1006, 2, 1>>, <<1012, 1012, 1, -60>>,
      <<1015, 1015, 1, 1>>, <<1017, 1017, 1, -7>>, <<1018, 1018, 1, 1>>,
      <<1021, 1023, 1, -130>>, <<1024, 1039, 1, 80>>, <<1040, 1071, 1, 32>>,
      <<1120, 1152, 2, 1>>, <<1162, 1214, 2, 1>>, <<1216, 1216, 1, 15>>,
      <<1217, 1229, 2, 1>>, <<1232, 1326, 2, 1>>, <<1329, 1366, 1, 48>>,
      <<4256, 4293, 1, 7264>>, <<4295, 4295, 1, 7264>>, <<4301, 4301, 1, 7264>>,
      <<5024, 5103, 1, 38864>>, <<5104, 5109, 1, 8>>, <<7312, 7354, 1, -3008>>,
      <<7357, 7359, 1, -3008>>, <<7680, 7828, 2, 1>>, <<7838, 7838, 1, -7615>>,
      <<7840, 7934, 2, 1>>, <<7944, 7951, 1, -8>>, <<7960, 7965, 1, -8>>,
      <<7976, 7983, 1, -8>>, <<7992, 7999, 1, -8>>, <<8008, 8013, 1, -8>>,
      <<8025, 8031, 2, -8>>, <<8040, 8047, 1, -8>>, <<8072, 8079, 1, -8>>,
      <<8088, 8095, 1, -8>>, <<8104, 8111, 1, -8>>, <<8120, 8121, 1, -8>>,
      <<8122, 8123, 1, -74>>, <<8124, 8124, 1, -9>>, <<8136, 8139, 1, -86>>,
      <<8140, 8140, 1, -9>>, <<8152, 8153, 1, -8>>, <<8154, 8155, 1, -100>>,
      <<8168, 8169, 1, -8>>, <<8170, 8171, 1, -112>>, <<8172, 8172, 1, -7>>,
      <<8184, 8185, 1, -128>>, <<8186, 8187, 1, -126>>, <<8188, 8188, 1, -9>>,
      <<8486, 8486, 1, -7517>>, <<8490, 8490, 1, -8383>>, <<8491, 8491, 1, -8262>>,
      <<8498, 8498, 1, 28>>, <<8544, 8559, 1, 16>>, <<8579, 8579, 1, 1>>,
      <<9398, 9423, 1, 26>>, <<11264, 11311, 1, 48>>, <<11360, 11360, 1, 1>>,
      <<11362, 11362, 1, -10743>>, <<11363, 11363, 1, -3814>>,
      <<11364, 11364, 1, -10727>>, <<11367, 11371, 2, 1>>, <<11373, 11373, 1, -10780>>,
      <<11374, 11374, 1, -10749>>, <<11375, 11375, 1, -10783>>,
      <<11376, 11376, 1, -10782>>, <<11378, 11378, 1, 1>>, <<11381, 11381, 1, 1>>,
      <<11390, 11391, 1, -10815>>, <<11392, 11490, 2, 1>>, <<11499, 11501, 2, 1>>,
      <<11506, 11506, 1, 1>>, <<42560, 42604, 2, 1>>, <<42624, 42650, 2, 1>>,
      <<42786, 42798, 2, 1>>, <<42802, 42862, 2, 1>>, <<42873, 42875, 2, 1>>,
      <<42877, 42877, 1, -35332>>, <<42878, 42886, 2, 1>>, <<42891, 42891, 1, 1>>,
      <<42893, 42893, 1, -42280>>, <<42896, 42898, 2, 1>>, <<42902, 42920, 2, 1>>,
      <<42922, 42922, 1, -42308>>, <<42923, 42923, 1, -42319>>,
      <<42924, 42924, 1, -42315>>, <<42925, 42925, 1, -42305>>,
      <<42926, 42926, 1, -42308>>, <<42928, 42928, 1, -42258>>,
      <<42929, 42929, 1, -42282>>, <<42930, 42930, 1, -42261>>,
      <<42931, 42931, 1, 928>>, <<42932, 42946, 2, 1>>, <<42948, 42948, 1, -48>>,
      <<42949, 42949, 1, -42307>>, <<42950, 42950, 1, -35384>>, <<42951, 42953, 2, 1>>,
      <<42960, 42960, 1, 1>>, <<42966, 42968, 2, 1>>, <<42997, 42997, 1, 1>>,
      <<65313, 65338, 1, 32>>, <<66560, 66599, 1, 40>>, <<66736, 66771, 1, 40>>,
      <<66928, 66938, 1, 39>>, <<66940, 66954, 1, 39>>, <<66956, 66962, 1, 39>>,
      <<66964, 66965, 1, 39>>, <<68736, 68786, 1, 64>>, <<71840, 71871, 1, 32>>,
      <<93760, 93791, 1, 32>>, <<125184, 125217, 1, 34>>
    >>

\* <<first, last>>: the code points that are cased (lower case, upper case or title
\* case) and not case-ignorable
CASED_RANGES ==
    <<
      <<65, 90>>, <<97, 122>>, <<170, 170>>, <<181, 181>>, <<186, 186>>, <<192, 214>>,
      <<216, 246>>, <<248, 442>>, <<444, 447>>, <<452, 659>>, <<661, 687>>,
      <<880, 883>>, <<886, 887>>, <<891, 893>>, <<895, 895>>, <<902, 902>>,
      <<904, 906>>, <<908, 908>>, <<910, 929>>, <<931, 1013>>, <<1015, 1153>>,
      <<1162, 1327>>, <<1329, 1366>>, <<1376, 1416>>, <<4256, 4293>>, <<4295, 4295>>,
      <<4301, 4301>>, <<4304, 4346>>, <<4349, 4351>>, <<5024, 5109>>, <<5112, 5117>>,
      <<7296, 7304>>, <<7312, 7354>>, <<7357, 7359>>, <<7424, 7467>>, <<7531, 7543>>,
      <<7545, 7578>>, <<7680, 7957>>, <<7960, 7965>>, <<7968, 8005>>, <<8008, 8013>>,
      <<8016, 8023>>, <<8025, 8025>>, <<8027, 8027>>, <<8029, 8029>>, <<8031, 8061>>,
      <<8064, 8116>>, <<8118, 8124>>, <<8126, 8126>>, <<8130, 8132>>, <<8134, 8140>>,
      <<8144, 8147>>, <<8150, 8155>>, <<8160, 8172>>, <<8178, 8180>>, <<8182, 8188>>,
      <<8450, 8450>>, <<8455, 8455>>, <<8458, 8467>>, <<8469, 8469>>, <<8473, 8477>>,
      <<8484, 8484>>, <<8486, 8486>>, <<8488, 8488>>, <<8490, 8493>>, <<8495, 8500>>,
      <<8505, 8505>>, <<8508, 8511>>, <<8517, 8521>>, <<8526, 8526>>, <<8544, 8575>>,
      <<8579, 8580>>, <<9398, 9449>>, <<11264, 11387>>, <<11390, 11492>>,
      <<11499, 11502>>, <<11506, 11507>>, <<11520, 11557>>, <<11559, 11559>>,
      <<11565, 11565>>, <<42560, 42605>>, <<42624, 42651>>, <<42786, 42863>>,
      <<42865, 42887>>, <<42891, 42894>>, <<42896, 42954>>, <<42960, 42961>>,
      <<42963, 42963>>, <<42965, 42969>>, <<42997, 42998>>, <<43002, 43002>>,
      <<43824, 43866>>, <<43872, 43880>>, <<43888, 43967>>, <<64256, 64262>>,
      <<64275, 64279>>, <<65313, 65338>>, <<65345, 65370>>, <<66560, 66639>>,
      <<66736, 66771>>, <<66776, 66811>>, <<66928, 66938>>, <<66940, 66954>>,
      <<66956, 66962>>, <<66964, 66965>>, <<66967, 66977>>, <<66979, 66993>>,
      <<66995, 67001>>, <<67003, 67004>>, <<68736, 68786>>, <<68800, 68850>>,
      <<71840, 71903>>, <<93760, 93823>>, <<119808, 119892>>, <<119894, 119964>>,
      <<119966, 119967>>, <<119970, 119970>>, <<119973, 119974>>, <<119977, 119980>>,
      <<119982, 119993>>, <<119995, 119995>>, <<119997, 120003>>, <<120005, 120069>>,
      <<120071, 120074>>, <<120077, 120084>>, <<120086, 120092>>, <<120094, 120121>>,
      <<120123, 120126>>, <<120128, 120132>>, <<120134, 120134>>, <<120138, 120144>>,
      <<120146, 120485>>, <<120488, 120512>>, <<120514, 120538>>, <<120540, 120570>>,
      <<120572, 120596>>, <<120598, 120628>>, <<120630, 120654>>, <<120656, 120686>>,
      <<120688, 120712>>, <<120714, 120744>>, <<120746, 120770>>, <<120772, 120779>>,
      <<122624, 122633>>, <<122635, 122654>>, <<125184, 125251>>, <<127280, 127305>>,
      <<127312, 127337>>, <<127344, 127369>>
    >>

\* <<first, last>>: the case-ignorable code points
CASE_IGNORABLE_RANGES ==
    <<
      <<39, 39>>, <<46, 46>>, <<58, 58>>, <<94, 94>>, <<96, 96>>, <<168, 168>>,
      <<173, 173>>, <<175, 175>>, <<180, 180>>, <<183, 184>>, <<688, 879>>,
      <<884, 885>>, <<890, 890>>, <<900, 901>>, <<903, 903>>, <<1155, 1161>>,
      <<1369, 1369>>, <<1375, 1375>>, <<1425, 1469>>, <<1471, 1471>>, <<1473, 1474>>,
      <<1476, 1477>>, <<1479, 1479>>, <<1524, 1524>>, <<1536, 1541>>, <<1552, 1562>>,
      <<1564, 1564>>, <<1600, 1600>>, <<1611, 1631>>, <<1648, 1648>>, <<1750, 1757>>,
      <<1759, 1768>>, <<1770, 1773>>, <<1807, 1807>>, <<1809, 1809>>, <<1840, 1866>>,
      <<1958, 1968>>, <<2027, 2037>>, <<2042, 2042>>, <<2045, 2045>>, <<2070, 2093>>,
      <<2137, 2139>>, <<2184, 2184>>, <<2192, 2193>>, <<2200, 2207>>, <<2249, 2306>>,
      <<2362, 2362>>, <<2364, 2364>>, <<2369, 2376>>, <<2381, 2381>>, <<2385, 2391>>,
      <<2402, 2403>>, <<2417, 2417>>, <<2433, 2433>>, <<2492, 2492>>, <<2497, 2500>>,
      <<2509, 2509>>, <<2530, 2531>>, <<2558, 2558>>, <<2561, 2562>>, <<2620, 2620>>,
      <<2625, 2626>>, <<2631, 2632>>, <<2635, 2637>>, <<2641, 2641>>, <<2672, 2673>>,
      <<2677, 2677>>, <<2689, 2690>>, <<2748, 2748>>, <<2753, 2757>>, <<2759, 2760>>,
      <<2765, 2765>>, <<2786, 2787>>, <<2810, 2815>>, <<2817, 2817>>, <<2876, 2876>>,
      <<2879, 2879>>, <<2881, 2884>>, <<2893, 2893>>, <<2901, 2902>>, <<2914, 2915>>,
      <<2946, 2946>>, <<3008, 3008>>, <<3021, 3021>>, <<3072, 3072>>, <<3076, 3076>>,
      <<3132, 3132>>, <<3134, 3136>>, <<3142, 3144>>, <<3146, 3149>>, <<3157, 3158>>,
      <<3170, 3171>>, <<3201, 3201>>, <<3260, 3260>>, <<3263, 3263>>, <<3270, 3270>>,
      <<3276, 3277>>, <<3298, 3299>>, <<3328, 3329>>, <<3387, 3388>>, <<3393, 3396>>,
      <<3405, 3405>>, <<3426, 3427>>, <<3457, 3457>>, <<3530, 3530>>, <<3538, 3540>>,
      <<3542, 3542>>, <<3633, 3633>>, <<3636, 3642>>, <<3654, 3662>>, <<3761, 3761>>,
      <<3764, 3772>>, <<3782, 3782>>, <<3784, 3789>>, <<3864, 3865>>, <<3893, 3893>>,
      <<3895, 3895>>, <<3897, 3897>>, <<3953, 3966>>, <<3968, 3972>>, <<3974, 3975>>,
      <<3981, 3991>>, <<3993, 4028>>, <<4038, 4038>>, <<4141, 4144>>, <<4146, 4151>>,
      <<4153, 4154>>, <<4157, 4158>>, <<4184, 4185>>, <<4190, 4192>>, <<4209, 4212>>,
      <<4226, 4226>>, <<4229, 4230>>, <<4237, 4237>>, <<4253, 4253>>, <<4348, 4348>>,
      <<4957, 4959>>, <<5906, 5908>>, <<5938, 5939>>, <<5970, 5971>>, <<6002, 6003>>,
      <<6068, 6069>>, <<6071, 6077>>, <<6086, 6086>>, <<6089, 6099>>, <<6103, 6103>>,
      <<6109, 6109>>, <<6155, 6159>>, <<6211, 6211>>, <<6277, 6278>>, <<6313, 6313>>,
      <<6432, 6434>>, <<6439, 6440>>, <<6450, 6450>>, <<6457, 6459>>, <<6679, 6680>>,
      <<6683, 6683>>, <<6742, 6742>>, <<6744, 6750>>, <<6752, 6752>>, <<6754, 6754>>,
      <<6757, 6764>>, <<6771, 6780>>, <<6783, 6783>>, <<6823, 6823>>, <<6832, 6862>>,
      <<6912, 6915>>, <<6964, 6964>>, <<6966, 6970>>, <<6972, 6972>>, <<6978, 6978>>,
      <<7019, 7027>>, <<7040, 7041>>, <<7074, 7077>>, <<7080, 7081>>, <<7083, 7085>>,
      <<7142, 7142>>, <<7144, 7145>>, <<7149, 7149>>, <<7151, 7153>>, <<7212, 7219>>,
      <<7222, 7223>>, <<7288, 7293>>, <<7376, 7378>>, <<7380, 7392>>, <<7394, 7400>>,
      <<7405, 7405>>, <<7412, 7412>>, <<7416, 7417>>, <<7468, 7530>>, <<7544, 7544>>,
      <<7579, 7679>>, <<8125, 8125>>, <<8127, 8129>>, <<8141, 8143>>, <<8157, 8159>>,
      <<8173, 8175>>, <<8189, 8190>>, <<8203, 8207>>, <<8216, 8217>>, <<8228, 8228>>,
      <<8231, 8231>>, <<8234, 8238>>, <<8288, 8292>>, <<8294, 8303>>, <<8305, 8305>>,
      <<8319, 8319>>, <<8336, 8348>>, <<8400, 8432>>, <<11388, 11389>>,
      <<11503, 11505>>, <<11631, 11631>>, <<11647, 11647>>, <<11744, 11775>>,
      <<11823, 11823>>, <<12293, 12293>>, <<12330, 12333>>, <<12337, 12341>>,
      <<12347, 12347>>, <<12441, 12446>>, <<12540, 12542>>, <<40981, 40981>>,
      <<42232, 42237>>, <<42508, 42508>>, <<42607, 42610>>, <<42612, 42621>>,
      <<42623, 42623>>, <<42652, 42655>>, <<42736, 42737>>, <<42752, 42785>>,
      <<42864, 42864>>, <<42888, 42890>>, <<42994, 42996>>, <<43000, 43001>>,
      <<43010, 43010>>, <<43014, 43014>>, <<43019, 43019>>, <<43045, 43046>>,
      <<43052, 43052>>, <<43204, 43205>>, <<43232, 43249>>, <<43263, 43263>>,
      <<43302, 43309>>, <<43335, 43345>>, <<43392, 43394>>, <<43443, 43443>>,
      <<43446, 43449>>, <<43452, 43453>>, <<43471, 43471>>, <<43493, 43494>>,
      <<43561, 43566>>, <<43569, 43570>>, <<43573, 43574>>, <<43587, 43587>>,
      <<43596, 43596>>, <<43632, 43632>>, <<43644, 43644>>, <<43696, 43696>>,
      <<43698, 43700>>, <<43703, 43704>>, <<43710, 43711>>, <<43713, 43713>>,
      <<43741, 43741>>, <<43756, 43757>>, <<43763, 43764>>, <<43766, 43766>>,
      <<43867, 43871>>, <<43881, 43883>>, <<44005, 44005>>, <<44008, 44008>>,
      <<44013, 44013>>, <<64286, 64286>>, <<64434, 64450>>, <<65024, 65039>>,
      <<65043, 65043>>, <<65056, 65071>>, <<65106, 65106>>, <<65109, 65109>>,
      <<65279, 65279>>, <<65287, 65287>>, <<65294, 65294>>, <<65306, 65306>>,
      <<65342, 65342>>, <<65344, 65344>>, <<65392, 65392>>, <<65438, 65439>>,
      <<65507, 65507>>, <<65529, 65531>>, <<66045, 66045>>, <<66272, 66272>>,
      <<66422, 66426>>, <<67456, 67461>>, <<67463, 67504>>, <<67506, 67514>>,
      <<68097, 68099>>, <<68101, 68102>>, <<68108, 68111>>, <<68152, 68154>>,
      <<68159, 68159>>, <<68325, 68326>>, <<68900, 68903>>, <<69291, 69292>>,
      <<69446, 69456>>, <<69506, 69509>>, <<69633, 69633>>, <<69688, 69702>>,
      <<69744, 69744>>, <<69747, 69748>>, <<69759, 69761>>, <<69811, 69814>>,
      <<69817, 69818>>, <<69821, 69821>>, <<69826, 69826>>, <<69837, 69837>>,
      <<69888, 69890>>, <<69927, 69931>>, <<69933, 69940>>, <<70003, 70003>>,
      <<70016, 70017>>, <<70070, 70078>>, <<70089, 70092>>, <<70095, 70095>>,
      <<70191, 70193>>, <<70196, 70196>>, <<70198, 70199>>, <<70206, 70206>>,
      <<70367, 70367>>, <<70371, 70378>>, <<70400, 70401>>, <<70459, 70460>>,
      <<70464, 70464>>, <<70502, 70508>>, <<70512, 70516>>, <<70712, 70719>>,
      <<70722, 70724>>, <<70726, 70726>>, <<70750, 70750>>, <<70835, 70840>>,
      <<70842, 70842>>, <<70847, 70848>>, <<70850, 70851>>, <<71090, 71093>>,
      <<71100, 71101>>, <<71103, 71104>>, <<71132, 71133>>, <<71219, 71226>>,
      <<71229, 71229>>, <<71231, 71232>>, <<71339, 71339>>, <<71341, 71341>>,
      <<71344, 71349>>, <<71351, 71351>>, <<71453, 71455>>, <<71458, 71461>>,
      <<71463, 71467>>, <<71727, 71735>>, <<71737, 71738>>, <<71995, 71996>>,
      <<71998, 71998>>, <<72003, 72003>>, <<72148, 72151>>, <<72154, 72155>>,
      <<72160, 72160>>, <<72193, 72202>>, <<72243, 72248>>, <<72251, 72254>>,
      <<72263, 72263>>, <<72273, 72278>>, <<72281, 72283>>, <<72330, 72342>>,
      <<72344, 72345>>, <<72752, 72758>>, <<72760, 72765>>, <<72767, 72767>>,
      <<72850, 72871>>, <<72874, 72880>>, <<72882, 72883>>, <<72885, 72886>>,
      <<73009, 73014>>, <<73018, 73018>>, <<73020, 73021>>, <<73023, 73029>>,
      <<73031, 73031>>, <<73104, 73105>>, <<73109, 73109>>, <<73111, 73111>>,
      <<73459, 73460>>, <<78896, 78904>>, <<92912, 92916>>, <<92976, 92982>>,
      <<92992, 92995>>, <<94031, 94031>>, <<94095, 94111>>, <<94176, 94177>>,
      <<94179, 94180>>, <<110576, 110579>>, <<110581, 110587>>, <<110589, 110590>>,
      <<113821, 113822>>, <<113824, 113827>>, <<118528, 118573>>, <<118576, 118598>>,
      <<119143, 119145>>, <<119155, 119170>>, <<119173, 119179>>, <<119210, 119213>>,
      <<119362, 119364>>, <<121344, 121398>>, <<121403, 121452>>, <<121461, 121461>>,
      <<121476, 121476>>, <<121499, 121503>>, <<121505, 121519>>, <<122880, 122886>>,
      <<122888, 122904>>, <<122907, 122913>>, <<122915, 122916>>, <<122918, 122922>>,
      <<123184, 123197>>, <<123566, 123566>>, <<123628, 123631>>, <<125136, 125142>>,
      <<125252, 125259>>, <<127995, 127999>>, <<917505, 917505>>, <<917536, 917631>>,
      <<917760, 917999>>
    >>

\* c lies in one of the ranges, each <<first, last, ...>>
InRanges(c, ranges) ==
    \E n \in 1..Len(ranges) : c \in ranges[n][1]..ranges[n][2]

\* str.lower() of the one-character text chr(c); the rows of A-Z and of А-Я are
\* looked up without a search of the table
LowerChar(c) ==
    LET Shifted(ranges) ==
            LET rows == {n \in 1..Len(ranges) :
                           /\ c \in ranges[n][1]..ranges[n][2]
                           /\ (c - ranges[n][1]) % ranges[n][3] = 0}
            IN  IF rows = {} THEN <<c>>
                ELSE <<c + ranges[CHOOSE n \in rows : TRUE][4]>>
    IN  IF c < 192 THEN <<IF c \in 65..90 THEN c + 32 ELSE c>>
        ELSE IF c \in 1040..1071 THEN <<c + 32>>
        ELSE IF c \in 1072..1103 THEN <<c>>
        ELSE IF c = 304 THEN <<105, 775>>
        ELSE Shifted(LOWER_RANGES)

\* str.lower(): character by character, except that a capital sigma (U+03A3)
\* becomes the final sigma (U+03C2) where a cased character comes before it and
\* none after it, case-ignorable characters skipped, and the sigma U+03C3 elsewhere
Lower(t) ==
    LET FinalSigma(kept, cased, i) ==
            LET before == {j \in kept : j < i}
                after  == {j \in kept : j > i}
            IN  /\ before # {}
                /\ SetMax(before) \in cased
                /\ after = {} \/ SetMin(after) \notin cased
        Chars(kept, cased) ==
            [i \in 1..Len(t) |->
                IF t[i] = 931 THEN <<IF FinalSigma(kept, cased, i) THEN 962 ELSE 963>>
                ELSE LowerChar(t[i])]
        RECURSIVE Joined(_, _)
        Joined(chars, i) ==
            IF i > Len(chars) THEN <<>> ELSE chars[i] \o Joined(chars, i + 1)
        Result(chars) ==
            IF \A i \in 1..Len(chars) : Len(chars[i]) = 1
            THEN [i \in 1..Len(chars) |-> chars[i][1]]
            ELSE Joined(chars, 1)
    IN  Only({Result(chars) :
              chars \in {Chars({j \in 1..Len(t) : ~InRanges(t[j], CASE_IGNORABLE_RANGES)},
                               {j \in 1..Len(t) : InRanges(t[j], CASED_RANGES)})}})

\* w in t
Contains(t, w) ==
    \/ w = <<>>
    \/ \E i \in 1..(Len(t) - Len(w) + 1) :
          t[i] = w[1] /\ SubSeq(t, i, i + Len(w) - 1) = w

\* t[i:].startswith(w), i counted from 1
OccursAt(t, w, i) ==
    /\ i >= 1
    /\ i + Len(w) - 1 <= Len(t)
    /\ SubSeq(t, i, i + Len(w) - 1) = w

\* t.startswith(w)
StartsWith(t, w) ==
    OccursAt(t, w, 1)

\* any(w in t for w in words)
AnyIn(t, words) ==
    \E w \in words : Contains(t, w)

\* str.strip()
Strip(t) ==
    IF \A i \in 1..Len(t) : IsSpace(t[i]) THEN <<>>
    ELSE SubSeq(t,
                CHOOSE i \in 1..Len(t) :
                    ~IsSpace(t[i]) /\ \A k \in 1..(i - 1) : IsSpace(t[k]),
                CHOOSE i \in 1..Len(t) :
                    ~IsSpace(t[i]) /\ \A k \in (i + 1)..Len(t) : IsSpace(t[k]))

\* position of the first character at or after i that is not white space
\* (Len(t) + 1 when there is none)
SkipSpaces(t, i) ==
    CHOOSE j \in i..(Len(t) + 1) :
        /\ j = Len(t) + 1 \/ ~IsSpace(t[j])
        /\ \A k \in i..(j - 1) : IsSpace(t[k])

\* position of the last digit of the digit run that holds position i
DigitRunEnd(t, i) ==
    CHOOSE j \in i..Len(t) :
        /\ j = Len(t) \/ ~IsDigit(t[j + 1])
        /\ \A k \in i..j : IsDigit(t[k])

RECURSIVE IntOf(_)
\* int(digits)
IntOf(ds) ==
    IF ds = <<>> THEN 0
    ELSE 10 * IntOf(SubSeq(ds, 1, Len(ds) - 1)) + DigitValue(ds[Len(ds)])

RECURSIVE Digits(_)
\* str(n) for n >= 0
Digits(n) ==
    IF n < 10 THEN <<48 + n>> ELSE Digits(n \div 10) \o <<48 + (n % 10)>>

\* str(n)
FormatInt(n) ==
    IF n < 0 THEN <<45>> \o Digits(-n) ELSE Digits(n)

(***************************************************************************)
(* Numbers (Python int and float).  An int of any size is the sequence of  *)
(* its base-RADIX digits, least significant first, without leading zeros   *)
(* (0 is the empty sequence).  A float is an IEEE 754 double [neg, m, e]   *)
(* of value m * 2^e: m is an int below 2^53, at least 2^52 unless e is     *)
(* MIN_EXP; 0.0 is [neg |-> FALSE, m |-> <<>>, e |-> 0].                   *)
(***************************************************************************)

RADIX ==
    32768

RADIX_BITS ==
    15

MANT_BITS ==
    53

MIN_EXP ==
    -1074

MAX_TOP ==
    1023

\* the digit of a at position i
BigDigit(a, i) ==
    IF i <= Len(a) THEN a[i] ELSE 0

\* a without leading zero digits
BigNorm(a) ==
    LET nz == {i \in 1..Len(a) : a[i] # 0}
    IN  IF nz = {} THEN <<>> ELSE SubSeq(a, 1, SetMax(nz))

RECURSIVE BigOf(_)
\* the int n
BigOf(n) ==
    IF n = 0 THEN <<>> ELSE <<n % RADIX>> \o BigOf(n \div RADIX)

\* a < b, a = b, a > b as -1, 0, 1
BigCmp(a, b) ==
    IF Len(a) # Len(b) THEN (IF Len(a) < Len(b) THEN -1 ELSE 1)
    ELSE LET d == {i \in 1..Len(a) : a[i] # b[i]}
         IN  IF d = {} THEN 0
             ELSE IF a[SetMax(d)] < b[SetMax(d)] THEN -1 ELSE 1

\* a + b: a carry enters position i when a position below it overflows and every
\* position between the two is full
BigAdd(a, b) ==
    LET n     == IF Len(a) > Len(b) THEN Len(a) ELSE Len(b)
        s(i)  == BigDigit(a, i) + BigDigit(b, i)
        c(i)  == \E j \in 1..(i - 1) :
                     s(j) >= RADIX /\ \A k \in (j + 1)..(i - 1) : s(k) = RADIX - 1
    IN  BigNorm([i \in 1..(n + 1) |-> (s(i) + (IF c(i) THEN 1 ELSE 0)) % RADIX])

\* a - b for a >= b: a borrow enters position i when a position below it falls
\* short and every position between the two has nothing to lend
BigSub(a, b) ==
    LET s(i)  == a[i] - BigDigit(b, i)
        c(i)  == \E j \in 1..(i - 1) :
                     s(j) < 0 /\ \A k \in (j + 1)..(i - 1) : s(k) <= 0
    IN  BigNorm([i \in 1..Len(a) |-> (s(i) - (IF c(i) THEN 1 ELSE 0)) % RADIX])

\* a * k + c for one-digit k and c: the low and the high digits of the products
BigMulAdd(a, k, c) ==
    BigAdd(BigAdd([i \in 1..Len(a) |-> (a[i] * k) % RADIX],
                  <<0>> \o [i \in 1..Len(a) |-> (a[i] * k) \div RADIX]),
           BigOf(c))

\* a * RADIX^n
BigShiftDigits(a, n) ==
    IF a = <<>> THEN <<>> ELSE [i \in 1..n |-> 0] \o a

RECURSIVE BigMulDigits(_, _, _, _)
\* a * the int of the digits lo..hi of b
BigMulDigits(a, b, lo, hi) ==
    IF lo = hi THEN BigMulAdd(a, b[lo], 0)
    ELSE BigAdd(BigMulDigits(a, b, lo, (lo + hi) \div 2),
                BigShiftDigits(BigMulDigits(a, b, ((lo + hi) \div 2) + 1, hi),
                               ((lo + hi) \div 2) + 1 - lo))

\* a * b
BigMul(a, b) ==
    IF b = <<>> \/ a = <<>> THEN <<>> ELSE BigMulDigits(a, b, 1, Len(b))

\* int.bit_length()
BitLen(a) ==
    IF a = <<>> THEN 0
    ELSE RADIX_BITS * (Len(a) - 1)
         + SetMin({k \in 1..RADIX_BITS : a[Len(a)] < 2^k})

\* a << s
BigShl(a, s) ==
    BigShiftDigits(BigMulAdd(a, 2^(s % RADIX_BITS), 0), s \div RADIX_BITS)

\* a >> s
BigShr(a, s) ==
    LET skip == s \div RADIX_BITS
        cut  == 2^(s % RADIX_BITS)
    IN  BigNorm([i \in 1..(Len(a) - skip) |->
                    (a[i + skip] \div cut)
                    + (BigDigit(a, i + skip + 1) % cut) * (RADIX \div cut)])

\* bit s of a (bit 0 is the lowest)
BigBit(a, s) ==
    (BigDigit(a, (s \div RADIX_BITS) + 1) \div 2^(s % RADIX_BITS)) % 2

\* a % 2^s = 0
BigLowZero(a, s) ==
    /\ \A i \in 1..(s \div RADIX_BITS) : BigDigit(a, i) = 0
    /\ BigDigit(a, (s \div RADIX_BITS) + 1) % 2^(s % RADIX_BITS) = 0

\* divmod(x, b) for x < b * RADIX, where the highest digit of b is at least
\* RADIX / 2: the two highest digits of x over the highest of b give a guess that is
\* the quotient or up to 2 above it
BigDivStep(x, b) ==
    LET guess == (BigDigit(x, Len(b) + 1) * RADIX + BigDigit(x, Len(b))) \div b[Len(b)]
        top   == IF guess < RADIX THEN guess ELSE RADIX - 1
    IN  Only({[q |-> <<q>>, r |-> BigSub(x, BigMulAdd(b, q, 0))] :
              q \in {SetMax({c \in {top - 2, top - 1, top} :
                               c > 0 /\ BigCmp(BigMulAdd(b, c, 0), x) <= 0} \cup {0})}})

RECURSIVE BigDivDigits(_, _, _, _, _)
\* divmod(rem * RADIX^(hi - lo + 1) + the int of the digits lo..hi of a, b) for
\* rem < b; the quotient has the digits lo..hi
BigDivDigits(a, b, lo, hi, rem) ==
    IF lo = hi THEN BigDivStep(BigNorm(<<a[lo]>> \o rem), b)
    ELSE Only({Only({[q |-> down.q \o up.q, r |-> down.r] :
                     down \in {BigDivDigits(a, b, lo, ((lo + hi + 1) \div 2) - 1, up.r)}}) :
               up \in {BigDivDigits(a, b, (lo + hi + 1) \div 2, hi, rem)}})

\* divmod(a, b) for b > 0
BigDivModBig(a, b) ==
    LET by == (RADIX_BITS - (BitLen(b) % RADIX_BITS)) % RADIX_BITS
    IN  IF a = <<>> THEN [q |-> <<>>, r |-> <<>>]
        ELSE Only({[q |-> BigNorm(d.q), r |-> BigShr(d.r, by)] :
                   d \in {Only({BigDivDigits(x, y, 1, Len(x), <<>>) :
                                x \in {BigShl(a, by)}, y \in {BigShl(b, by)}})}})

\* divmod(a, k) for one-digit k > 0
BigDivMod(a, k) ==
    Only({[q |-> d.q, r |-> BigDigit(d.r, 1)] : d \in {BigDivModBig(a, <<k>>)}})

Zero ==
    [neg |-> FALSE, m |-> <<>>, e |-> 0]

\* The double nearest to (-1)^neg * (n + f) * 2^e, ties to even, where 0 <= f < 1
\* and sticky says f > 0 (then n has more than MANT_BITS + 1 bits); over is
\* set when the value is beyond the largest double.
RoundDouble(neg, n, e, sticky) ==
    LET Keep(top) == IF top < MIN_EXP + MANT_BITS - 1
                     THEN MANT_BITS - (MIN_EXP + MANT_BITS - 1 - top) ELSE MANT_BITS
        Up(s) == /\ s > 0
                 /\ BigBit(n, s - 1) = 1
                 /\ \/ sticky
                    \/ ~BigLowZero(n, s - 1)
                    \/ BigBit(n, s) = 1
        Pack(m, bits, s) ==
            IF m = <<>> THEN [val |-> [Zero EXCEPT !.neg = neg], over |-> FALSE]
            ELSE [val  |-> [neg |-> neg,
                            m   |-> IF bits > MANT_BITS THEN BigShr(m, 1) ELSE m,
                            e   |-> e + s + (IF bits > MANT_BITS THEN 1 ELSE 0)],
                  over |-> bits - 1 + e + s > MAX_TOP]
    IN  Only({Only({Only({Pack(m, BitLen(m), s) :
                          m \in {IF Up(s) THEN BigAdd(q, <<1>>) ELSE q}}) :
                    q \in {IF s <= 0 THEN BigShl(n, -s) ELSE BigShr(n, s)}}) :
              s \in {BitLen(n) - Keep(BitLen(n) - 1 + e)}})

\* round(a / b * 2^e) as a double, for ints a and b > 0
DivRound(neg, a, b, e) ==
    LET want == MANT_BITS + 3 + BitLen(b) - BitLen(a)
    IN  IF a = <<>> THEN [val |-> [Zero EXCEPT !.neg = neg], over |-> FALSE]
        ELSE Only({RoundDouble(neg, d.q, e - want,
                               d.r # <<>> \/ (want < 0 /\ ~BigLowZero(a, -want))) :
                   d \in {BigDivModBig(IF want > 0 THEN BigShl(a, want)
                                       ELSE BigShr(a, -want), b)}})

\* x is 0.0 or -0.0
IsZero(x) ==
    x.m = <<>>

\* float(n) for an int n >= 0
FloatOf(n) ==
    RoundDouble(FALSE, n, 0, FALSE)

\* |x| and |y| as ints of one common exponent
Aligned(x, y) ==
    LET e == IF x.e < y.e THEN x.e ELSE y.e
    IN  [a |-> BigShl(x.m, x.e - e), b |-> BigShl(y.m, y.e - e), e |-> e]

\* x < y, x = y, x > y as -1, 0, 1
FloatCmp(x, y) ==
    LET Mag(al) == IF x.neg THEN -BigCmp(al.a, al.b) ELSE BigCmp(al.a, al.b)
    IN  IF IsZero(x) /\ IsZero(y) THEN 0
        ELSE IF IsZero(x) THEN (IF y.neg THEN 1 ELSE -1)
        ELSE IF IsZero(y) THEN (IF x.neg THEN -1 ELSE 1)
        ELSE IF x.neg # y.neg THEN (IF x.neg THEN -1 ELSE 1)
        ELSE Mag(Aligned(x, y))

\* x + y
FloatAdd(x, y) ==
    IF IsZero(x) /\ IsZero(y) THEN [Zero EXCEPT !.neg = x.neg /\ y.neg]
    ELSE IF IsZero(x) THEN y
    ELSE IF IsZero(y) THEN x
    ELSE Only({Only({IF x.neg # y.neg /\ mag = 0 THEN Zero
                     ELSE RoundDouble(IF x.neg = y.neg \/ mag > 0 THEN x.neg ELSE y.neg,
                                      IF x.neg = y.neg THEN BigAdd(al.a, al.b)
                                      ELSE IF mag > 0 THEN BigSub(al.a, al.b)
                                      ELSE BigSub(al.b, al.a),
                                      al.e, FALSE).val :
                     mag \in {BigCmp(al.a, al.b)}}) :
               al \in {Aligned(x, y)}})

\* x - y
FloatSub(x, y) ==
    FloatAdd(x, [y EXCEPT !.neg = ~y.neg])

\* x * y
FloatMul(x, y) ==
    RoundDouble(x.neg # y.neg, BigMul(x.m, y.m), x.e + y.e, FALSE).val

\* x / y for y # 0
FloatDiv(x, y) ==
    DivRound(x.neg # y.neg, x.m, y.m, x.e - y.e).val

\* float.is_integer()
is_integer(x) ==
    x.e >= 0 \/ BigLowZero(x.m, -x.e)

\* int(x) for x >= 0 with is_integer()
IntOfFloat(x) ==
    IF x.e >= 0 THEN BigShl(x.m, x.e) ELSE BigShr(x.m, -x.e)

RECURSIVE BigPow10(_)
\* 10 ** k
BigPow10(k) ==
    IF k < 5 THEN BigOf(10^k)
    ELSE Only({IF k % 2 = 0 THEN BigMul(h, h) ELSE BigMulAdd(BigMul(h, h), 10, 0) :
               h \in {BigPow10(k \div 2)}})

RECURSIVE BigOfDigits(_)
\* int(digits) for a text of digits
BigOfDigits(ds) ==
    IF Len(ds) <= 4 THEN BigOf(IntOf(ds))
    ELSE Only({BigAdd(BigMul(front, BigPow10(Len(ds) - (Len(ds) \div 2))), back) :
               front \in {BigOfDigits(SubSeq(ds, 1, Len(ds) \div 2))},
               back  \in {BigOfDigits(SubSeq(ds, (Len(ds) \div 2) + 1, Len(ds)))}})

RECURSIVE BigStrWide(_, _)
\* str(n) for an int n >= 0, filled with zeros on the left to the width w
BigStrWide(n, w) ==
    IF w <= 4 THEN SubSeq(Digits(10000 + BigDigit(n, 1)), 6 - w, 5)
    ELSE Only({BigStrWide(d.q, w - (w \div 2)) \o BigStrWide(d.r, w \div 2) :
               d \in {BigDivModBig(n, BigPow10(w \div 2))}})

\* the number of decimal digits of n > 0
DecimalLen(n) ==
    LET guess == ((BitLen(n) - 1) * 30103) \div 100000
    IN  IF BigCmp(n, BigPow10(guess + 1)) >= 0 THEN guess + 2 ELSE guess + 1

\* str(n) for an int n >= 0
BigStr(n) ==
    IF n = <<>> THEN <<48>> ELSE BigStrWide(n, DecimalLen(n))

RECURSIVE FixUp(_, _, _, _, _, _)
\* r/s, the half gaps mp/s and mm/s to the neighbouring doubles, scaled by the
\* power 10^k that puts the upper end of the rounding interval in [1/10, 1)
FixUp(r, s, mp, mm, k, even) ==
    Only({Only({IF c > 0 \/ (c = 0 /\ even)
                THEN FixUp(r, BigMulAdd(s, 10, 0), mp, mm, k + 1, even)
                ELSE IF c10 < 0 \/ (c10 = 0 /\ ~even)
                THEN FixUp(BigMulAdd(r, 10, 0), s, BigMulAdd(mp, 10, 0),
                           BigMulAdd(mm, 10, 0), k - 1, even)
                ELSE [r |-> r, s |-> s, mp |-> mp, mm |-> mm, k |-> k] :
                c \in {BigCmp(hi, s)}, c10 \in {BigCmp(BigMulAdd(hi, 10, 0), s)}}) :
          hi \in {BigAdd(r, mp)}})

RECURSIVE GenDigits(_, _, _, _, _)
\* The digits of r/s up to the first that ends inside the rounding interval: what
\* is left of r/s is below mm/s (low) or within mp/s of the next digit (high).  The
\* last digit is rounded to the nearest, to the even one of two equally near.
GenDigits(r, s, mp, mm, even) ==
    LET Next(digit, r1, mp10, mm10, low, high, half) ==
            IF ~low /\ ~high
            THEN <<48 + digit>> \o GenDigits(r1, s, mp10, mm10, even)
            ELSE IF low /\ ~high THEN <<48 + digit>>
            ELSE IF high /\ ~low THEN <<49 + digit>>
            ELSE IF half < 0 THEN <<48 + digit>>
            ELSE IF half > 0 THEN <<49 + digit>>
            ELSE <<48 + digit + (digit % 2)>>
    IN  Only({Only({Next(BigDigit(d.q, 1), d.r, mp10, mm10,
                         c1 < 0 \/ (c1 = 0 /\ even), c2 > 0 \/ (c2 = 0 /\ even), half) :
                    c1   \in {BigCmp(d.r, mm10)},
                    c2   \in {BigCmp(BigAdd(d.r, mp10), s)},
                    half \in {BigCmp(BigMulAdd(d.r, 2, 0), s)}}) :
              d    \in {BigDivModBig(BigMulAdd(r, 10, 0), s)},
              mp10 \in {BigMulAdd(mp, 10, 0)},
              mm10 \in {BigMulAdd(mm, 10, 0)}})

\* The shortest decimal digits that read back as the double x > 0 (the nearest to
\* x among the shortest), and the place k of the point: x is about
\* 0.d1d2... * 10^k
ShortestDigits(x) ==
    LET even == BigBit(x.m, 0) = 0
        up   == IF x.e >= 0 THEN x.e ELSE 0
        down == IF x.e >= 0 THEN 0 ELSE -x.e
        w    == IF BitLen(x.m) = MANT_BITS /\ BigLowZero(x.m, MANT_BITS - 1)
                   /\ x.e # MIN_EXP
                THEN 1 ELSE 0
        est  == ((BitLen(x.m) - 1 + x.e) * 30103) \div 100000
    IN  Only({[digits |-> GenDigits(f.r, f.s, f.mp, f.mm, even), k |-> f.k] :
              f \in {Only({FixUp(BigMul(BigShl(x.m, up + w + 1), up10),
                                 BigMul(BigShl(<<1>>, down + w + 1), down10),
                                 BigMul(BigShl(<<1>>, up + w), up10),
                                 BigMul(BigShl(<<1>>, up), up10), est, even) :
                           up10   \in {IF est < 0 THEN BigPow10(-est) ELSE <<1>>},
                           down10 \in {IF est >= 0 THEN BigPow10(est) ELSE <<1>>}})}})

\* repr(x) for a double x > 0
FloatRepr(x) ==
    LET Shown(ds, k) ==
            LET n   == Len(ds)
                ex  == k - 1
                mag == IF ex < 0 THEN -ex ELSE ex
            IN  IF k <= -4 \/ k > 16
        THEN <<ds[1]>> \o (IF n > 1 THEN <<46>> \o Tail(ds) ELSE <<>>)
             \o <<101, IF ex < 0 THEN 45 ELSE 43>>
             \o (IF mag < 10 THEN <<48>> ELSE <<>>) \o Digits(mag)
        ELSE IF k <= 0 THEN <<48, 46>> \o [i \in 1..(-k) |-> 48] \o ds
        ELSE IF k >= n THEN ds \o [i \in 1..(k - n) |-> 48] \o <<46, 48>>
                ELSE SubSeq(ds, 1, k) \o <<46>> \o SubSeq(ds, k + 1, n)
    IN  Only({Shown(sd.digits, sd.k) : sd \in {ShortestDigits(x)}})

(***************************************************************************)
(* Keyword lists and message texts of the source, as code points.          *)
(***************************************************************************)

\* _update_emotion keyword groups (cognitive_cycle.py:83-89)

EMO_JOY_WORDS ==
    {
      <<1087, 1088, 1080, 1074, 1077, 1090>>,  \* "привет"
      <<1079, 1076, 1088, 1072, 1074, 1089, 1090, 1074, 1091, 1081>>,  \* "здравствуй"
      <<1076, 1086, 1073, 1088, 1099, 1081>>  \* "добрый"
    }

EMO_SADNESS_WORDS ==
    {
      <<1075, 1088, 1091, 1089, 1090, 1085, 1086>>,  \* "грустно"
      <<1087, 1083, 1086, 1093, 1086>>,  \* "плохо"
      <<1087, 1077, 1095, 1072, 1083, 1100>>  \* "печаль"
    }

EMO_ANGER_WORDS ==
    {
      <<1079, 1083, 1102, 1089, 1100>>,  \* "злюсь"
      <<1073, 1077, 1089, 1080, 1090>>,  \* "бесит"
      <<1088, 1072, 1079, 1076, 1088, 1072, 1078, 1072, 1077, 1090>>  \* "раздражает"
    }

\* "?"
QMARK ==
    <<63>>

\* _infer_intent prefixes and keyword groups (cognitive_cycle.py:94-108)

\* "/status"
CMD_STATUS ==
    <<47, 115, 116, 97, 116, 117, 115>>

\* "/reset"
CMD_RESET ==
    <<47, 114, 101, 115, 101, 116>>

CAPABILITY_WORDS ==
    {
      <<1095, 1090, 1086, 32, 1090, 1099, 32, 1091, 1084, 1077, 1077, 1096, 1100>>,  \* "что ты умеешь"
      <<1095, 1090, 1086, 32, 1090, 1099, 32, 1084, 1086, 1078, 1077, 1096, 1100>>,  \* "что ты можешь"
      <<1082, 1090, 1086, 32, 1090, 1099>>  \* "кто ты"
    }

ADVICE_WORDS ==
    {
      <<1089, 1086, 1074, 1077, 1090>>,  \* "совет"
      <<1087, 1086, 1076, 1089, 1082, 1072, 1078, 1080>>,  \* "подскажи"
      <<1082, 1072, 1082, 32, 1084, 1085, 1077>>,  \* "как мне"
      <<1095, 1090, 1086, 32, 1076, 1077, 1083, 1072, 1090, 1100>>  \* "что делать"
    }

SUPPORT_WORDS ==
    {
      <<1075, 1088, 1091, 1089, 1090, 1085, 1086>>,  \* "грустно"
      <<1087, 1083, 1086, 1093, 1086>>,  \* "плохо"
      <<1086, 1076, 1080, 1085, 1086, 1082, 1086>>,  \* "одиноко"
      <<1090, 1103, 1078, 1077, 1083, 1086>>  \* "тяжело"
    }

\* "поиск_в_интернете"
SEARCH_TOKEN ==
    <<1087, 1086, 1080, 1089, 1082, 95, 1074, 95, 1080, 1085, 1090, 1077, 1088, 1085, 1077, 1090, 1077>>

FUN_WORDS ==
    {
      <<1080, 1075, 1088, 1072>>,  \* "игра"
      <<1080, 1075, 1088, 1072, 1090, 1100>>,  \* "играть"
      <<1089, 1082, 1091, 1095, 1085, 1086>>  \* "скучно"
    }

\* _update_skills keyword groups (cognitive_cycle.py:261-265)

SKILL_GREETING_WORDS ==
    {
      <<1087, 1088, 1080, 1074, 1077, 1090>>,  \* "привет"
      <<1087, 1086, 1082, 1072>>,  \* "пока"
      <<1089, 1087, 1072, 1089, 1080, 1073, 1086>>  \* "спасибо"
    }

SKILL_SEARCH_WORDS ==
    {
      <<1085, 1072, 1081, 1076, 1080>>,  \* "найди"
      <<1087, 1086, 1080, 1097, 1080>>,  \* "поищи"
      <<1079, 1072, 1075, 1091, 1075, 1083, 1080>>,  \* "загугли"
      <<1087, 1086, 1080, 1089, 1082, 95, 1074, 95, 1080, 1085, 1090, 1077, 1088, 1085, 1077, 1090, 1077>>  \* "поиск_в_интернете"
    }

SKILL_EMPATHY_WORDS ==
    {
      <<1075, 1088, 1091, 1089, 1090, 1085, 1086>>,  \* "грустно"
      <<1087, 1083, 1086, 1093, 1086>>,  \* "плохо"
      <<1088, 1072, 1089, 1089, 1090, 1088, 1086, 1077, 1085>>,  \* "расстроен"
      <<1086, 1076, 1080, 1085, 1086, 1082, 1086>>  \* "одиноко"
    }

\* _learn topic vocabulary (cognitive_cycle.py:285)

TOPIC_WORDS ==
    <<
      <<1080, 1075, 1088, 1099>>,  \* "игры"
      <<1088, 1072, 1073, 1086, 1090, 1072>>,  \* "работа"
      <<1091, 1095, 1105, 1073, 1072>>,  \* "учёба"
      <<1089, 1077, 1084, 1100, 1103>>,  \* "семья"
      <<1087, 1088, 1086, 1077, 1082, 1090>>  \* "проект"
    >>

\* _fallback_response keywords (cognitive_cycle.py:219-251)

\* "как дела"
HOW_ARE_YOU ==
    <<1082, 1072, 1082, 32, 1076, 1077, 1083, 1072>>

\* "сколько"
SKOLKO ==
    <<1089, 1082, 1086, 1083, 1100, 1082, 1086>>

\* "будет"
BUDET ==
    <<1073, 1091, 1076, 1077, 1090>>

FB_CAPABILITY_WORDS ==
    {
      <<1095, 1090, 1086, 32, 1090, 1099, 32, 1091, 1084, 1077, 1077, 1096, 1100>>,  \* "что ты умеешь"
      <<1095, 1090, 1086, 32, 1090, 1099, 32, 1084, 1086, 1078, 1077, 1096, 1100>>  \* "что ты можешь"
    }

\* "кто ты"
WHO_ARE_YOU ==
    <<1082, 1090, 1086, 32, 1090, 1099>>

\* TextAnalyzer.patterns keyword alternatives (analyzer.py:14-22)

PAT_DEFINITION ==
    <<
      <<1095, 1090, 1086, 32, 1090, 1072, 1082, 1086, 1077>>,  \* "что такое"
      <<1095, 1090, 1086, 32, 1079, 1085, 1072, 1095, 1080, 1090>>,  \* "что значит"
      <<1086, 1073, 1098, 1103, 1089, 1085, 1080>>,  \* "объясни"
      <<1088, 1072, 1089, 1089, 1082, 1072, 1078, 1080, 32, 1087, 1088, 1086>>  \* "расскажи про"
    >>

PAT_HOW_TO ==
    <<
      <<1082, 1072, 1082>>,  \* "как"
      <<1082, 1072, 1082, 1080, 1084, 32, 1086, 1073, 1088, 1072, 1079, 1086, 1084>>  \* "каким образом"
    >>

PAT_WHY ==
    <<
      <<1087, 1086, 1095, 1077, 1084, 1091>>,  \* "почему"
      <<1079, 1072, 1095, 1077, 1084>>,  \* "зачем"
      <<1086, 1090, 1095, 1077, 1075, 1086>>  \* "отчего"
    >>

PAT_WHEN ==
    <<
      <<1082, 1086, 1075, 1076, 1072>>  \* "когда"
    >>

PAT_WHERE ==
    <<
      <<1075, 1076, 1077>>,  \* "где"
      <<1082, 1091, 1076, 1072>>,  \* "куда"
      <<1086, 1090, 1082, 1091, 1076, 1072>>  \* "откуда"
    >>

PAT_WHO ==
    <<
      <<1082, 1090, 1086, 32, 1090, 1072, 1082, 1086, 1081>>,  \* "кто такой"
      <<1082, 1090, 1086, 32, 1090, 1072, 1082, 1072, 1103>>,  \* "кто такая"
      <<1082, 1090, 1086, 32, 1090, 1072, 1082, 1080, 1077>>,  \* "кто такие"
      <<1082, 1090, 1086>>  \* "кто"
    >>

PAT_COMPARE ==
    <<
      <<1089, 1088, 1072, 1074, 1085, 1080>>,  \* "сравни"
      <<1095, 1077, 1084, 32, 1086, 1090, 1083, 1080, 1095, 1072, 1077, 1090, 1089, 1103>>,  \* "чем отличается"
      <<1088, 1072, 1079, 1085, 1080, 1094, 1072, 32, 1084, 1077, 1078, 1076, 1091>>  \* "разница между"
    >>

PAT_LIST ==
    <<
      <<1087, 1077, 1088, 1077, 1095, 1080, 1089, 1083, 1080>>,  \* "перечисли"
      <<1085, 1072, 1079, 1086, 1074, 1080>>,  \* "назови"
      <<1082, 1072, 1082, 1080, 1077, 32, 1073, 1099, 1074, 1072, 1102, 1090>>  \* "какие бывают"
    >>

\* TextAnalyzer.analyze question openers (analyzer.py:36)

QUESTION_OPENERS ==
    {
      <<1095, 1090, 1086>>,  \* "что"
      <<1082, 1072, 1082>>,  \* "как"
      <<1075, 1076, 1077>>,  \* "где"
      <<1082, 1086, 1075, 1076, 1072>>,  \* "когда"
      <<1087, 1086, 1095, 1077, 1084, 1091>>,  \* "почему"
      <<1079, 1072, 1095, 1077, 1084>>,  \* "зачем"
      <<1082, 1090, 1086>>,  \* "кто"
      <<1089, 1082, 1086, 1083, 1100, 1082, 1086>>  \* "сколько"
    }

\* TextAnalyzer._extract_keywords stop words (analyzer.py:56-61)

STOP_WORDS ==
    {
      <<1080>>,  \* "и"
      <<1074>>,  \* "в"
      <<1085, 1072>>,  \* "на"
      <<1089>>,  \* "с"
      <<1087, 1086>>,  \* "по"
      <<1076, 1083, 1103>>,  \* "для"
      <<1095, 1090, 1086>>,  \* "что"
      <<1082, 1072, 1082>>,  \* "как"
      <<1101, 1090, 1086>>,  \* "это"
      <<1090, 1086>>,  \* "то"
      <<1072>>,  \* "а"
      <<1085, 1086>>,  \* "но"
      <<1080, 1083, 1080>>,  \* "или"
      <<1077, 1089, 1083, 1080>>,  \* "если"
      <<1090, 1086>>,  \* "то"
      <<1078, 1077>>,  \* "же"
      <<1073, 1099>>,  \* "бы"
      <<1083, 1080>>,  \* "ли"
      <<1085, 1077>>,  \* "не"
      <<1085, 1080>>,  \* "ни"
      <<1103>>,  \* "я"
      <<1090, 1099>>,  \* "ты"
      <<1086, 1085>>,  \* "он"
      <<1086, 1085, 1072>>,  \* "она"
      <<1084, 1099>>,  \* "мы"
      <<1074, 1099>>,  \* "вы"
      <<1086, 1085, 1080>>,  \* "они"
      <<1084, 1085, 1077>>,  \* "мне"
      <<1090, 1077, 1073, 1077>>,  \* "тебе"
      <<1077, 1075, 1086>>,  \* "его"
      <<1077, 1105>>,  \* "её"
      <<1080, 1093>>,  \* "их"
      <<1085, 1072, 1089>>,  \* "нас"
      <<1074, 1072, 1089>>,  \* "вас"
      <<1091>>,  \* "у"
      <<1082>>,  \* "к"
      <<1086, 1090>>,  \* "от"
      <<1076, 1086>>,  \* "до"
      <<1080, 1079>>  \* "из"
    }

\* ResponseGenerator._answer_by_keywords tech words (analyzer.py:142)

TECH_WORDS ==
    {
      <<112, 121, 116, 104, 111, 110>>,  \* "python"
      <<1082, 1086, 1076>>,  \* "код"
      <<1087, 1088, 1086, 1075, 1088, 1072, 1084, 1084>>,  \* "программ"
      <<1092, 1091, 1085, 1082, 1094, 1080>>,  \* "функци"
      <<1082, 1083, 1072, 1089, 1089>>,  \* "класс"
      <<1084, 1077, 1090, 1086, 1076>>  \* "метод"
    }

\* fixed response texts

\* "⚠️ "
WARN_PREFIX ==
    <<9888, 65039, 32>>

\* "Память очищена. Начинаем заново!"
MSG_RESET ==
    <<1055, 1072, 1084, 1103, 1090, 1100, 32, 1086, 1095, 1080, 1097, 1077, 1085, 1072, 46, 32, 1053, 1072, 1095, 1080, 1085, 1072, 1077, 1084, 32, 1079, 1072, 1085, 1086, 1074, 1086, 33>>

\* "Я ещё не полноценный ИИ, но уже умею: помнить контекст, реагировать эмоциями, прокачивать навыки и подстраиваться под тебя."
MSG_CAPABILITIES ==
    <<1071, 32, 1077, 1097, 1105, 32, 1085, 1077, 32, 1087, 1086, 1083, 1085, 1086, 1094, 1077, 1085, 1085, 1099, 1081, 32, 1048, 1048, 44, 32, 1085, 1086, 32, 1091, 1078, 1077, 32, 1091, 1084, 1077, 1102, 58, 32, 1087, 1086, 1084, 1085, 1080, 1090, 1100, 32, 1082, 1086, 1085, 1090, 1077, 1082, 1089, 1090, 44, 32, 1088, 1077, 1072, 1075, 1080, 1088, 1086, 1074, 1072, 1090, 1100, 32, 1101, 1084, 1086, 1094, 1080, 1103, 1084, 1080, 44, 32, 1087, 1088, 1086, 1082, 1072, 1095, 1080, 1074, 1072, 1090, 1100, 32, 1085, 1072, 1074, 1099, 1082, 1080, 32, 1080, 32, 1087, 1086, 1076, 1089, 1090, 1088, 1072, 1080, 1074, 1072, 1090, 1100, 1089, 1103, 32, 1087, 1086, 1076, 32, 1090, 1077, 1073, 1103, 46>>

\* "Я с тобой. Попробую быть максимально внимательным."
MSG_EMPATHY_HIGH ==
    <<1071, 32, 1089, 32, 1090, 1086, 1073, 1086, 1081, 46, 32, 1055, 1086, 1087, 1088, 1086, 1073, 1091, 1102, 32, 1073, 1099, 1090, 1100, 32, 1084, 1072, 1082, 1089, 1080, 1084, 1072, 1083, 1100, 1085, 1086, 32, 1074, 1085, 1080, 1084, 1072, 1090, 1077, 1083, 1100, 1085, 1099, 1084, 46>>

\* "Понимаю, что тебе непросто. Постараюсь поддержать."
MSG_EMPATHY_LOW ==
    <<1055, 1086, 1085, 1080, 1084, 1072, 1102, 44, 32, 1095, 1090, 1086, 32, 1090, 1077, 1073, 1077, 32, 1085, 1077, 1087, 1088, 1086, 1089, 1090, 1086, 46, 32, 1055, 1086, 1089, 1090, 1072, 1088, 1072, 1102, 1089, 1100, 32, 1087, 1086, 1076, 1076, 1077, 1088, 1078, 1072, 1090, 1100, 46>>

\* "Я пока только учусь поиску. Могу помочь сформулировать запрос."
MSG_SEARCH_NOVICE ==
    <<1071, 32, 1087, 1086, 1082, 1072, 32, 1090, 1086, 1083, 1100, 1082, 1086, 32, 1091, 1095, 1091, 1089, 1100, 32, 1087, 1086, 1080, 1089, 1082, 1091, 46, 32, 1052, 1086, 1075, 1091, 32, 1087, 1086, 1084, 1086, 1095, 1100, 32, 1089, 1092, 1086, 1088, 1084, 1091, 1083, 1080, 1088, 1086, 1074, 1072, 1090, 1100, 32, 1079, 1072, 1087, 1088, 1086, 1089, 46>>

\* "Навык поиска прокачан. Могу подсказать, как лучше искать."
MSG_SEARCH_SKILLED ==
    <<1053, 1072, 1074, 1099, 1082, 32, 1087, 1086, 1080, 1089, 1082, 1072, 32, 1087, 1088, 1086, 1082, 1072, 1095, 1072, 1085, 46, 32, 1052, 1086, 1075, 1091, 32, 1087, 1086, 1076, 1089, 1082, 1072, 1079, 1072, 1090, 1100, 44, 32, 1082, 1072, 1082, 32, 1083, 1091, 1095, 1096, 1077, 32, 1080, 1089, 1082, 1072, 1090, 1100, 46>>

\* "Нужно что-то для поиска. Попробуй сформулировать запрос."
MSG_EMPTY_QUERY ==
    <<1053, 1091, 1078, 1085, 1086, 32, 1095, 1090, 1086, 45, 1090, 1086, 32, 1076, 1083, 1103, 32, 1087, 1086, 1080, 1089, 1082, 1072, 46, 32, 1055, 1086, 1087, 1088, 1086, 1073, 1091, 1081, 32, 1089, 1092, 1086, 1088, 1084, 1091, 1083, 1080, 1088, 1086, 1074, 1072, 1090, 1100, 32, 1079, 1072, 1087, 1088, 1086, 1089, 46>>

\* "Давай сыграем! Я загадаю число от 1 до 10, а ты угадай."
MSG_GAME ==
    <<1044, 1072, 1074, 1072, 1081, 32, 1089, 1099, 1075, 1088, 1072, 1077, 1084, 33, 32, 1071, 32, 1079, 1072, 1075, 1072, 1076, 1072, 1102, 32, 1095, 1080, 1089, 1083, 1086, 32, 1086, 1090, 32, 49, 32, 1076, 1086, 32, 49, 48, 44, 32, 1072, 32, 1090, 1099, 32, 1091, 1075, 1072, 1076, 1072, 1081, 46>>

\* "Привет! Рад тебя видеть 🙂"
MSG_HELLO ==
    <<1055, 1088, 1080, 1074, 1077, 1090, 33, 32, 1056, 1072, 1076, 32, 1090, 1077, 1073, 1103, 32, 1074, 1080, 1076, 1077, 1090, 1100, 32, 128578>>

\* "Я могу говорить, запоминать контекст, реагировать эмоциями и прокачивать навыки."
MSG_FB_CAPABILITIES ==
    <<1071, 32, 1084, 1086, 1075, 1091, 32, 1075, 1086, 1074, 1086, 1088, 1080, 1090, 1100, 44, 32, 1079, 1072, 1087, 1086, 1084, 1080, 1085, 1072, 1090, 1100, 32, 1082, 1086, 1085, 1090, 1077, 1082, 1089, 1090, 44, 32, 1088, 1077, 1072, 1075, 1080, 1088, 1086, 1074, 1072, 1090, 1100, 32, 1101, 1084, 1086, 1094, 1080, 1103, 1084, 1080, 32, 1080, 32, 1087, 1088, 1086, 1082, 1072, 1095, 1080, 1074, 1072, 1090, 1100, 32, 1085, 1072, 1074, 1099, 1082, 1080, 46>>

\* "Я экспериментальный ИИ-компаньон, который учится на общении с тобой."
MSG_FB_WHO ==
    <<1071, 32, 1101, 1082, 1089, 1087, 1077, 1088, 1080, 1084, 1077, 1085, 1090, 1072, 1083, 1100, 1085, 1099, 1081, 32, 1048, 1048, 45, 1082, 1086, 1084, 1087, 1072, 1085, 1100, 1086, 1085, 44, 32, 1082, 1086, 1090, 1086, 1088, 1099, 1081, 32, 1091, 1095, 1080, 1090, 1089, 1103, 32, 1085, 1072, 32, 1086, 1073, 1097, 1077, 1085, 1080, 1080, 32, 1089, 32, 1090, 1086, 1073, 1086, 1081, 46>>

\* "Интересный вопрос. Как ты сам бы на него ответил?"
MSG_FB_QUESTION ==
    <<1048, 1085, 1090, 1077, 1088, 1077, 1089, 1085, 1099, 1081, 32, 1074, 1086, 1087, 1088, 1086, 1089, 46, 32, 1050, 1072, 1082, 32, 1090, 1099, 32, 1089, 1072, 1084, 32, 1073, 1099, 32, 1085, 1072, 32, 1085, 1077, 1075, 1086, 32, 1086, 1090, 1074, 1077, 1090, 1080, 1083, 63>>

\* "Понял тебя. Можешь рассказать подробнее?"
MSG_FB_DEFAULT ==
    <<1055, 1086, 1085, 1103, 1083, 32, 1090, 1077, 1073, 1103, 46, 32, 1052, 1086, 1078, 1077, 1096, 1100, 32, 1088, 1072, 1089, 1089, 1082, 1072, 1079, 1072, 1090, 1100, 32, 1087, 1086, 1076, 1088, 1086, 1073, 1085, 1077, 1077, 63>>

\* "На ноль делить нельзя!"
MSG_DIV_ZERO ==
    <<1053, 1072, 32, 1085, 1086, 1083, 1100, 32, 1076, 1077, 1083, 1080, 1090, 1100, 32, 1085, 1077, 1083, 1100, 1079, 1103, 33>>

\* "Не смог посчитать это выражение."
MSG_MATH_FAILED ==
    <<1053, 1077, 32, 1089, 1084, 1086, 1075, 32, 1087, 1086, 1089, 1095, 1080, 1090, 1072, 1090, 1100, 32, 1101, 1090, 1086, 32, 1074, 1099, 1088, 1072, 1078, 1077, 1085, 1080, 1077, 46>>

\* "Это похоже на вопрос про программирование. Могу поискать информацию, если уточнишь."
MSG_TECH_NO_SEARCH ==
    <<1069, 1090, 1086, 32, 1087, 1086, 1093, 1086, 1078, 1077, 32, 1085, 1072, 32, 1074, 1086, 1087, 1088, 1086, 1089, 32, 1087, 1088, 1086, 32, 1087, 1088, 1086, 1075, 1088, 1072, 1084, 1084, 1080, 1088, 1086, 1074, 1072, 1085, 1080, 1077, 46, 32, 1052, 1086, 1075, 1091, 32, 1087, 1086, 1080, 1089, 1082, 1072, 1090, 1100, 32, 1080, 1085, 1092, 1086, 1088, 1084, 1072, 1094, 1080, 1102, 44, 32, 1077, 1089, 1083, 1080, 32, 1091, 1090, 1086, 1095, 1085, 1080, 1096, 1100, 46>>

\* "Интересный вопрос! Можешь уточнить, что именно тебя интересует?"
MSG_GENERIC_NOCTX ==
    <<1048, 1085, 1090, 1077, 1088, 1077, 1089, 1085, 1099, 1081, 32, 1074, 1086, 1087, 1088, 1086, 1089, 33, 32, 1052, 1086, 1078, 1077, 1096, 1100, 32, 1091, 1090, 1086, 1095, 1085, 1080, 1090, 1100, 44, 32, 1095, 1090, 1086, 32, 1080, 1084, 1077, 1085, 1085, 1086, 32, 1090, 1077, 1073, 1103, 32, 1080, 1085, 1090, 1077, 1088, 1077, 1089, 1091, 1077, 1090, 63>>

\* "Я попробовал поискать в сети, но ничего полезного не нашёл."
MSG_SEARCH_EMPTY ==
    <<1071, 32, 1087, 1086, 1087, 1088, 1086, 1073, 1086, 1074, 1072, 1083, 32, 1087, 1086, 1080, 1089, 1082, 1072, 1090, 1100, 32, 1074, 32, 1089, 1077, 1090, 1080, 44, 32, 1085, 1086, 32, 1085, 1080, 1095, 1077, 1075, 1086, 32, 1087, 1086, 1083, 1077, 1079, 1085, 1086, 1075, 1086, 32, 1085, 1077, 32, 1085, 1072, 1096, 1105, 1083, 46>>

\* "Во время онлайн-поиска произошла ошибка. Давай попробуем сформулировать вопрос иначе?"
MSG_SEARCH_ERROR ==
    <<1042, 1086, 32, 1074, 1088, 1077, 1084, 1103, 32, 1086, 1085, 1083, 1072, 1081, 1085, 45, 1087, 1086, 1080, 1089, 1082, 1072, 32, 1087, 1088, 1086, 1080, 1079, 1086, 1096, 1083, 1072, 32, 1086, 1096, 1080, 1073, 1082, 1072, 46, 32, 1044, 1072, 1074, 1072, 1081, 32, 1087, 1086, 1087, 1088, 1086, 1073, 1091, 1077, 1084, 32, 1089, 1092, 1086, 1088, 1084, 1091, 1083, 1080, 1088, 1086, 1074, 1072, 1090, 1100, 32, 1074, 1086, 1087, 1088, 1086, 1089, 32, 1080, 1085, 1072, 1095, 1077, 63>>

\* "Ошибка API: "
MSG_API_ERROR ==
    <<1054, 1096, 1080, 1073, 1082, 1072, 32, 65, 80, 73, 58, 32>>

\* f-string fragments

\* "Слышу, что тебе непросто. Сейчас я ощущаю "
F_SUPPORT_1 ==
    <<1057, 1083, 1099, 1096, 1091, 44, 32, 1095, 1090, 1086, 32, 1090, 1077, 1073, 1077, 32, 1085, 1077, 1087, 1088, 1086, 1089, 1090, 1086, 46, 32, 1057, 1077, 1081, 1095, 1072, 1089, 32, 1103, 32, 1086, 1097, 1091, 1097, 1072, 1102, 32>>

\* ". Хочешь рассказать подробнее?"
F_SUPPORT_2 ==
    <<46, 32, 1061, 1086, 1095, 1077, 1096, 1100, 32, 1088, 1072, 1089, 1089, 1082, 1072, 1079, 1072, 1090, 1100, 32, 1087, 1086, 1076, 1088, 1086, 1073, 1085, 1077, 1077, 63>>

\* "Мы недавно обсуждали: ""
F_RECENT_1 ==
    <<1052, 1099, 32, 1085, 1077, 1076, 1072, 1074, 1085, 1086, 32, 1086, 1073, 1089, 1091, 1078, 1076, 1072, 1083, 1080, 58, 32, 34>>

\* "". Продолжим или сменим тему?"
F_RECENT_2 ==
    <<34, 46, 32, 1055, 1088, 1086, 1076, 1086, 1083, 1078, 1080, 1084, 32, 1080, 1083, 1080, 32, 1089, 1084, 1077, 1085, 1080, 1084, 32, 1090, 1077, 1084, 1091, 63>>

\* "У меня всё неплохо, чувствую "
F_HOW_1 ==
    <<1059, 32, 1084, 1077, 1085, 1103, 32, 1074, 1089, 1105, 32, 1085, 1077, 1087, 1083, 1086, 1093, 1086, 44, 32, 1095, 1091, 1074, 1089, 1090, 1074, 1091, 1102, 32>>

\* ". А у тебя как?"
F_HOW_2 ==
    <<46, 32, 1040, 32, 1091, 32, 1090, 1077, 1073, 1103, 32, 1082, 1072, 1082, 63>>

\* "Чтобы ответить на вопрос про '"
F_NEED_NET_1 ==
    <<1063, 1090, 1086, 1073, 1099, 32, 1086, 1090, 1074, 1077, 1090, 1080, 1090, 1100, 32, 1085, 1072, 32, 1074, 1086, 1087, 1088, 1086, 1089, 32, 1087, 1088, 1086, 32, 39>>

\* "', мне нужен доступ к интернету."
F_NEED_NET_2 ==
    <<39, 44, 32, 1084, 1085, 1077, 32, 1085, 1091, 1078, 1077, 1085, 32, 1076, 1086, 1089, 1090, 1091, 1087, 32, 1082, 32, 1080, 1085, 1090, 1077, 1088, 1085, 1077, 1090, 1091, 46>>

\* "Ты спрашиваешь про то, что мы обсуждали ("
F_GENERIC_1 ==
    <<1058, 1099, 32, 1089, 1087, 1088, 1072, 1096, 1080, 1074, 1072, 1077, 1096, 1100, 32, 1087, 1088, 1086, 32, 1090, 1086, 44, 32, 1095, 1090, 1086, 32, 1084, 1099, 32, 1086, 1073, 1089, 1091, 1078, 1076, 1072, 1083, 1080, 32, 40>>

\* ")? Уточни, пожалуйста."
F_GENERIC_2 ==
    <<41, 63, 32, 1059, 1090, 1086, 1095, 1085, 1080, 44, 32, 1087, 1086, 1078, 1072, 1083, 1091, 1081, 1089, 1090, 1072, 46>>

\* "Цикл: "
F_STATE_1 ==
    <<1062, 1080, 1082, 1083, 58, 32>>

\* ", эмоция: "
F_STATE_2 ==
    <<44, 32, 1101, 1084, 1086, 1094, 1080, 1103, 58, 32>>

\* " ("
F_STATE_3 ==
    <<32, 40>>

\* "), настроение: "
F_STATE_4 ==
    <<41, 44, 32, 1085, 1072, 1089, 1090, 1088, 1086, 1077, 1085, 1080, 1077, 58, 32>>

\* "."
F_STATE_5 ==
    <<46>>

\* " = "
F_EQ ==
    <<32, 61, 32>>

\* OnlineBrain.answer / fetch_and_summarize fragments (online_brain.py:47, 131)

\* "Нашёл что-то по запросу: "
F_FOUND_1 ==
    <<1053, 1072, 1096, 1105, 1083, 32, 1095, 1090, 1086, 45, 1090, 1086, 32, 1087, 1086, 32, 1079, 1072, 1087, 1088, 1086, 1089, 1091, 58, 32>>

\* " ("
F_FOUND_2 ==
    <<32, 40>>

\* "), но не смог аккуратно извлечь текст."
F_FOUND_3 ==
    <<41, 44, 32, 1085, 1086, 32, 1085, 1077, 32, 1089, 1084, 1086, 1075, 32, 1072, 1082, 1082, 1091, 1088, 1072, 1090, 1085, 1086, 32, 1080, 1079, 1074, 1083, 1077, 1095, 1100, 32, 1090, 1077, 1082, 1089, 1090, 46>>

\* "Вот кратко из сети:\n"
F_SUMMARY_1 ==
    <<1042, 1086, 1090, 32, 1082, 1088, 1072, 1090, 1082, 1086, 32, 1080, 1079, 32, 1089, 1077, 1090, 1080, 58, 10>>

\* "\n\nИсточник: "
F_SUMMARY_2 ==
    <<10, 10, 1048, 1089, 1090, 1086, 1095, 1085, 1080, 1082, 58, 32>>

\* what the network returns in the model: one search hit on an allowed domain

\* "arXiv"
SAMPLE_TITLE ==
    <<97, 114, 88, 105, 118>>

\* "https://arxiv.org/a"
SAMPLE_URL ==
    <<104, 116, 116, 112, 115, 58, 47, 47, 97, 114, 120, 105, 118, 46, 111, 114, 103, 47, 97>>

\* "Abstract."
SAMPLE_PAGE_TEXT ==
    <<65, 98, 115, 116, 114, 97, 99, 116, 46>>

\* what the model client returns or raises in the model

\* "Хорошо."
SAMPLE_LLM_TEXT ==
    <<1061, 1086, 1088, 1086, 1096, 1086, 46>>

\* "timeout"
SAMPLE_LLM_ERROR ==
    <<116, 105, 109, 101, 111, 117, 116>>

\* ResponseGenerator._answer_with_search query prefixes (analyzer.py:122-126)

\* "что такое "
Q_DEFINITION ==
    <<1095, 1090, 1086, 32, 1090, 1072, 1082, 1086, 1077, 32>>

\* "как "
Q_HOW_TO ==
    <<1082, 1072, 1082, 32>>

\* "кто такой "
Q_WHO ==
    <<1082, 1090, 1086, 32, 1090, 1072, 1082, 1086, 1081, 32>>

\* SafetySystem.check_input's message for a disallowed input, in the model

\* "blocked"
SAMPLE_BLOCK_REASON ==
    <<98, 108, 111, 99, 107, 101, 100>>

\* the user inputs of the model

\* "2 + 2"
IN_2PLUS2 ==
    <<50, 32, 43, 32, 50>>

\* "5 / 0"
IN_5DIV0 ==
    <<53, 32, 47, 32, 48>>

\* "/reset"
IN_RESET ==
    <<47, 114, 101, 115, 101, 116>>

\* "/status"
IN_STATUS ==
    <<47, 115, 116, 97, 116, 117, 115>>

\* "Привет"
IN_HELLO ==
    <<1055, 1088, 1080, 1074, 1077, 1090>>

\* "ок"
IN_OK ==
    <<1086, 1082>>

\* "мне грустно"
IN_SAD ==
    <<1084, 1085, 1077, 32, 1075, 1088, 1091, 1089, 1090, 1085, 1086>>

\* "поиск_в_интернете"
IN_SEARCH ==
    <<1087, 1086, 1080, 1089, 1082, 95, 1074, 95, 1080, 1085, 1090, 1077, 1088, 1085, 1077, 1090, 1077>>

\* "как дела?"
IN_QUESTION ==
    <<1082, 1072, 1082, 32, 1076, 1077, 1083, 1072, 63>>

\* "работа и учёба"
IN_WORK ==
    <<1088, 1072, 1073, 1086, 1090, 1072, 32, 1080, 32, 1091, 1095, 1105, 1073, 1072>>

\* expected texts

\* "2 + 2 = 4"
OUT_2PLUS2 ==
    <<50, 32, 43, 32, 50, 32, 61, 32, 52>>

(***************************************************************************)
(* Arithmetic patterns and result formatting.                              *)
(***************************************************************************)

\* the character class [+\-*/]
OPS ==
    {43, 45, 42, 47}

\* sys.get_int_max_str_digits(): int() of a text of more digits and str() of an
\* int of more digits raise ValueError
MAX_STR_DIGITS ==
    4300

\* (\d+)\s*([+\-*/])\s*(\d+) tried with its first digit at position i: the ends
\* of the two runs of digits and the places of the operator and of the second run
MathSpan(t, i) ==
    LET Right(e1, p, q) ==
            IF ~(q <= Len(t) /\ IsDigit(t[q])) THEN [ok |-> FALSE]
            ELSE [ok |-> TRUE, e1 |-> e1, p |-> p, q |-> q, last |-> DigitRunEnd(t, q)]
        Op(e1, p) ==
            IF ~(p <= Len(t) /\ t[p] \in OPS) THEN [ok |-> FALSE]
            ELSE Right(e1, p, SkipSpaces(t, p + 1))
        Left(e1) == Op(e1, SkipSpaces(t, e1 + 1))
    IN  IF ~(i \in 1..Len(t) /\ IsDigit(t[i])) THEN [ok |-> FALSE]
        ELSE Left(DigitRunEnd(t, i))

\* (\d+)\s*([+\-*/])\s*(\d+) matched with its first digit at position i; the
\* groups of digits are read with int(), which raises ValueError for a group of
\* more than MAX_STR_DIGITS digits (raised names the exception, "" for none)
MathAt(t, i) ==
    Only({IF ~m.ok THEN [ok |-> FALSE]
          ELSE IF \/ m.e1 - i + 1 > MAX_STR_DIGITS
                  \/ m.last - m.q + 1 > MAX_STR_DIGITS
          THEN [ok |-> TRUE, raised |-> "ValueError", last |-> m.last]
          ELSE [ok   |-> TRUE,
                raised |-> "",
                a    |-> BigOfDigits(SubSeq(t, i, m.e1)),
                op   |-> t[m.p],
                b    |-> BigOfDigits(SubSeq(t, m.q, m.last)),
                last |-> m.last] :
          m \in {MathSpan(t, i)}})

\* str(a / b) after "int(result) if result.is_integer()", for ints a and b > 0;
\* a quotient beyond the largest float raises OverflowError
FormatQuotient(a, b) ==
    Only({IF d.over THEN [raised |-> "OverflowError", text |-> <<>>]
          ELSE IF is_integer(d.val)
          THEN [raised |-> "", text |-> BigStr(IntOfFloat(d.val))]
          ELSE [raised |-> "", text |-> FloatRepr(d.val)] :
          d \in {DivRound(FALSE, a, b, 0)}})

\* ops[op](a, b), the conversion of an integral float to int and the text of the
\* result; raised names the exception, "" when there is none
Calc(a, op, b) ==
    LET less == op = 45 /\ BigCmp(a, b) < 0
    IN  IF op = 47
        THEN IF b = <<>> THEN [raised |-> "ZeroDivisionError", text |-> <<>>]
             ELSE FormatQuotient(a, b)
        ELSE Only({IF n # <<>> /\ DecimalLen(n) > MAX_STR_DIGITS
                   THEN [raised |-> "ValueError", text |-> <<>>]
                   ELSE [raised |-> "",
                         text   |-> (IF less THEN <<45>> ELSE <<>>) \o BigStr(n)] :
                   n \in {CASE op = 43 -> BigAdd(a, b)
                            [] op = 45 -> IF less THEN BigSub(b, a) ELSE BigSub(a, b)
                            [] op = 42 -> BigMul(a, b)}})

\* f"{a} {op} {b} = {res}"
FormatEquation(a, op, b, res) ==
    BigStr(a) \o <<32, op, 32>> \o BigStr(b) \o F_EQ \o res

(***************************************************************************)
(* TextAnalyzer (analyzer.py).                                             *)
(***************************************************************************)

\* re.search(r"(?:k1|k2|...)\s+(.+)", t): the places where a keyword is followed by
\* white space and then one more character of the same line
KeywordMatches(t, kws) ==
    {i \in 1..Len(t) : \E n \in 1..Len(kws) :
        /\ OccursAt(t, kws[n], i)
        /\ \E s \in (i + Len(kws[n]) + 1)..Len(t) :
              /\ \A m \in (i + Len(kws[n]))..(s - 1) : IsSpace(t[m])
              /\ t[s] # 10}

\* match.group(1).strip() of the leftmost match, the alternatives tried in order
KeywordSubject(t, kws) ==
    LET i  == SetMin(KeywordMatches(t, kws))
        Fits(n) == /\ OccursAt(t, kws[n], i)
                   /\ \E s \in (i + Len(kws[n]) + 1)..Len(t) :
                         /\ \A m \in (i + Len(kws[n]))..(s - 1) : IsSpace(t[m])
                         /\ t[s] # 10
        n  == SetMin({k \in 1..Len(kws) : Fits(k)})
        p  == i + Len(kws[n])
        s  == SetMax({x \in (p + 1)..Len(t) :
                        /\ \A m \in p..(x - 1) : IsSpace(t[m])
                        /\ t[x] # 10})
        e  == SetMax({x \in s..Len(t) : \A m \in s..x : t[m] # 10})
    IN  Strip(SubSeq(t, s, e))

\* re.search of patterns["math"]: the operands of the leftmost match.  A match
\* that begins inside a run of digits continues as the one that begins at the
\* first digit of the run, so the leftmost match begins a run.
MathSearch(t) ==
    Only({IF hits = {} THEN [ok |-> FALSE] ELSE MathAt(t, SetMin(hits)) :
          hits \in {{i \in 1..Len(t) : /\ IsDigit(t[i])
                                       /\ i = 1 \/ ~IsDigit(t[i - 1])
                                       /\ MathSpan(t, i).ok}}})

RECURSIVE LetterRuns(_, _)
\* re.findall(r"[а-яёa-z]+", t) from position i on
LetterRuns(t, i) ==
    IF \A j \in i..Len(t) : ~IsLetter(t[j]) THEN <<>>
    ELSE Only({Only({<<SubSeq(t, s, e)>> \o LetterRuns(t, e + 1) :
                     e \in {CHOOSE j \in s..Len(t) :
                               /\ j = Len(t) \/ ~IsLetter(t[j + 1])
                               /\ \A k \in s..j : IsLetter(t[k])}}) :
               s \in {CHOOSE j \in i..Len(t) :
                         /\ IsLetter(t[j])
                         /\ \A k \in i..(j - 1) : ~IsLetter(t[k])}})

_extract_keywords(text) ==
    LET Keep(w) == w \notin STOP_WORDS /\ Len(w) > 2
    IN  SelectSeq(LetterRuns(Lower(text), 1), Keep)

\* the patterns in dictionary order after "math": <<type, alternatives>>
PATTERNS ==
    << <<"definition", PAT_DEFINITION>>,
       <<"how_to", PAT_HOW_TO>>,
       <<"why", PAT_WHY>>,
       <<"when", PAT_WHEN>>,
       <<"where", PAT_WHERE>>,
       <<"who", PAT_WHO>>,
       <<"compare", PAT_COMPARE>>,
       <<"list", PAT_LIST>> >>

\* raised names the exception that leaves analyze, "" when it returns
analyze(text) ==
    LET Of(text_lower, keywords, type, subject, operands) ==
            [raised      |-> "",
             original    |-> text,
             keywords    |-> keywords,
             is_question |-> \/ Contains(text, QMARK)
                             \/ \E w \in QUESTION_OPENERS : StartsWith(text_lower, w),
             type        |-> type,
             has_subject |-> subject # <<>>,
             subject     |-> subject,
             operands    |-> operands]
    IN  Only({Only({IF math.ok /\ math.raised # ""
                      THEN [raised |-> math.raised]
                    ELSE Only({
                      IF math.ok
                        THEN Of(text_lower, keywords, "math", <<>>,
                                <<math.a, math.op, math.b>>)
                      ELSE IF hit # {}
                        THEN Of(text_lower, keywords, PATTERNS[SetMin(hit)][1],
                                KeywordSubject(text_lower, PATTERNS[SetMin(hit)][2]),
                                <<>>)
                      ELSE Of(text_lower, keywords, "unknown", <<>>, <<>>) :
                      hit      \in {{n \in 1..Len(PATTERNS) :
                                       KeywordMatches(text_lower, PATTERNS[n][2]) # {}}},
                      keywords \in {_extract_keywords(text_lower)}}) :
                    math \in {MathSearch(text_lower)}}) :
              text_lower \in {Strip(Lower(text))}})

(***************************************************************************)
(* OnlineBrain (online_brain.py).  The network is the environment: net     *)
(* says how search_google and the fetch of the page end.                   *)
(***************************************************************************)

NetOutcomes ==
    {"raises", "no_results", "no_text", "text"}

\* Python's None where a text is expected
None ==
    <<-1>>

\* where a text is expected: the call did not return, it raised ValueError
ValueError ==
    <<-2>>

\* <<first, last>>: the code points that regex \w matches (alphanumeric, or the
\* underscore), Unicode 14
WORD_RANGES ==
    <<
      <<48, 57>>, <<65, 90>>, <<95, 95>>, <<97, 122>>, <<170, 170>>, <<178, 179>>,
      <<181, 181>>, <<185, 186>>, <<188, 190>>, <<192, 214>>, <<216, 246>>,
      <<248, 705>>, <<710, 721>>, <<736, 740>>, <<748, 748>>, <<750, 750>>,
      <<880, 884>>, <<886, 887>>, <<890, 893>>, <<895, 895>>, <<902, 902>>,
      <<904, 906>>, <<908, 908>>, <<910, 929>>, <<931, 1013>>, <<1015, 1153>>,
      <<1162, 1327>>, <<1329, 1366>>, <<1369, 1369>>, <<1376, 1416>>, <<1488, 1514>>,
      <<1519, 1522>>, <<1568, 1610>>, <<1632, 1641>>, <<1646, 1647>>, <<1649, 1747>>,
      <<1749, 1749>>, <<1765, 1766>>, <<1774, 1788>>, <<1791, 1791>>, <<1808, 1808>>,
      <<1810, 1839>>, <<1869, 1957>>, <<1969, 1969>>, <<1984, 2026>>, <<2036, 2037>>,
      <<2042, 2042>>, <<2048, 2069>>, <<2074, 2074>>, <<2084, 2084>>, <<2088, 2088>>,
      <<2112, 2136>>, <<2144, 2154>>, <<2160, 2183>>, <<2185, 2190>>, <<2208, 2249>>,
      <<2308, 2361>>, <<2365, 2365>>, <<2384, 2384>>, <<2392, 2401>>, <<2406, 2415>>,
      <<2417, 2432>>, <<2437, 2444>>, <<2447, 2448>>, <<2451, 2472>>, <<2474, 2480>>,
      <<2482, 2482>>, <<2486, 2489>>, <<2493, 2493>>, <<2510, 2510>>, <<2524, 2525>>,
      <<2527, 2529>>, <<2534, 2545>>, <<2548, 2553>>, <<2556, 2556>>, <<2565, 2570>>,
      <<2575, 2576>>, <<2579, 2600>>, <<2602, 2608>>, <<2610, 2611>>, <<2613, 2614>>,
      <<2616, 2617>>, <<2649, 2652>>, <<2654, 2654>>, <<2662, 2671>>, <<2674, 2676>>,
      <<2693, 2701>>, <<2703, 2705>>, <<2707, 2728>>, <<2730, 2736>>, <<2738, 2739>>,
      <<2741, 2745>>, <<2749, 2749>>, <<2768, 2768>>, <<2784, 2785>>, <<2790, 2799>>,
      <<2809, 2809>>, <<2821, 2828>>, <<2831, 2832>>, <<2835, 2856>>, <<2858, 2864>>,
      <<2866, 2867>>, <<2869, 2873>>, <<2877, 2877>>, <<2908, 2909>>, <<2911, 2913>>,
      <<2918, 2927>>, <<2929, 2935>>, <<2947, 2947>>, <<2949, 2954>>, <<2958, 2960>>,
      <<2962, 2965>>, <<2969, 2970>>, <<2972, 2972>>, <<2974, 2975>>, <<2979, 2980>>,
      <<2984, 2986>>, <<2990, 3001>>, <<3024, 3024>>, <<3046, 3058>>, <<3077, 3084>>,
      <<3086, 3088>>, <<3090, 3112>>, <<3114, 3129>>, <<3133, 3133>>, <<3160, 3162>>,
      <<3165, 3165>>, <<3168, 3169>>, <<3174, 3183>>, <<3192, 3198>>, <<3200, 3200>>,
      <<3205, 3212>>, <<3214, 3216>>, <<3218, 3240>>, <<3242, 3251>>, <<3253, 3257>>,
      <<3261, 3261>>, <<3293, 3294>>, <<3296, 3297>>, <<3302, 3311>>, <<3313, 3314>>,
      <<3332, 3340>>, <<3342, 3344>>, <<3346, 3386>>, <<3389, 3389>>, <<3406, 3406>>,
      <<3412, 3414>>, <<3416, 3425>>, <<3430, 3448>>, <<3450, 3455>>, <<3461, 3478>>,
      <<3482, 3505>>, <<3507, 3515>>, <<3517, 3517>>, <<3520, 3526>>, <<3558, 3567>>,
      <<3585, 3632>>, <<3634, 3635>>, <<3648, 3654>>, <<3664, 3673>>, <<3713, 3714>>,
      <<3716, 3716>>, <<3718, 3722>>, <<3724, 3747>>, <<3749, 3749>>, <<3751, 3760>>,
      <<3762, 3763>>, <<3773, 3773>>, <<3776, 3780>>, <<3782, 3782>>, <<3792, 3801>>,
      <<3804, 3807>>, <<3840, 3840>>, <<3872, 3891>>, <<3904, 3911>>, <<3913, 3948>>,
      <<3976, 3980>>, <<4096, 4138>>, <<4159, 4169>>, <<4176, 4181>>, <<4186, 4189>>,
      <<4193, 4193>>, <<4197, 4198>>, <<4206, 4208>>, <<4213, 4225>>, <<4238, 4238>>,
      <<4240, 4249>>, <<4256, 4293>>, <<4295, 4295>>, <<4301, 4301>>, <<4304, 4346>>,
      <<4348, 4680>>, <<4682, 4685>>, <<4688, 4694>>, <<4696, 4696>>, <<4698, 4701>>,
      <<4704, 4744>>, <<4746, 4749>>, <<4752, 4784>>, <<4786, 4789>>, <<4792, 4798>>,
      <<4800, 4800>>, <<4802, 4805>>, <<4808, 4822>>, <<4824, 4880>>, <<4882, 4885>>,
      <<4888, 4954>>, <<4969, 4988>>, <<4992, 5007>>, <<5024, 5109>>, <<5112, 5117>>,
      <<5121, 5740>>, <<5743, 5759>>, <<5761, 5786>>, <<5792, 5866>>, <<5870, 5880>>,
      <<5888, 5905>>, <<5919, 5937>>, <<5952, 5969>>, <<5984, 5996>>, <<5998, 6000>>,
      <<6016, 6067>>, <<6103, 6103>>, <<6108, 6108>>, <<6112, 6121>>, <<6128, 6137>>,
      <<6160, 6169>>, <<6176, 6264>>, <<6272, 6276>>, <<6279, 6312>>, <<6314, 6314>>,
      <<6320, 6389>>, <<6400, 6430>>, <<6470, 6509>>, <<6512, 6516>>, <<6528, 6571>>,
      <<6576, 6601>>, <<6608, 6618>>, <<6656, 6678>>, <<6688, 6740>>, <<6784, 6793>>,
      <<6800, 6809>>, <<6823, 6823>>, <<6917, 6963>>, <<6981, 6988>>, <<6992, 7001>>,
      <<7043, 7072>>, <<7086, 7141>>, <<7168, 7203>>, <<7232, 7241>>, <<7245, 7293>>,
      <<7296, 7304>>, <<7312, 7354>>, <<7357, 7359>>, <<7401, 7404>>, <<7406, 7411>>,
      <<7413, 7414>>, <<7418, 7418>>, <<7424, 7615>>, <<7680, 7957>>, <<7960, 7965>>,
      <<7968, 8005>>, <<8008, 8013>>, <<8016, 8023>>, <<8025, 8025>>, <<8027, 8027>>,
      <<8029, 8029>>, <<8031, 8061>>, <<8064, 8116>>, <<8118, 8124>>, <<8126, 8126>>,
      <<8130, 8132>>, <<8134, 8140>>, <<8144, 8147>>, <<8150, 8155>>, <<8160, 8172>>,
      <<8178, 8180>>, <<8182, 8188>>, <<8304, 8305>>, <<8308, 8313>>, <<8319, 8329>>,
      <<8336, 8348>>, <<8450, 8450>>, <<8455, 8455>>, <<8458, 8467>>, <<8469, 8469>>,
      <<8473, 8477>>, <<8484, 8484>>, <<8486, 8486>>, <<8488, 8488>>, <<8490, 8493>>,
      <<8495, 8505>>, <<8508, 8511>>, <<8517, 8521>>, <<8526, 8526>>, <<8528, 8585>>,
      <<9312, 9371>>, <<9450, 9471>>, <<10102, 10131>>, <<11264, 11492>>,
      <<11499, 11502>>, <<11506, 11507>>, <<11517, 11517>>, <<11520, 11557>>,
      <<11559, 11559>>, <<11565, 11565>>, <<11568, 11623>>, <<11631, 11631>>,
      <<11648, 11670>>, <<11680, 11686>>, <<11688, 11694>>, <<11696, 11702>>,
      <<11704, 11710>>, <<11712, 11718>>, <<11720, 11726>>, <<11728, 11734>>,
      <<11736, 11742>>, <<11823, 11823>>, <<12293, 12295>>, <<12321, 12329>>,
      <<12337, 12341>>, <<12344, 12348>>, <<12353, 12438>>, <<12445, 12447>>,
      <<12449, 12538>>, <<12540, 12543>>, <<12549, 12591>>, <<12593, 12686>>,
      <<12690, 12693>>, <<12704, 12735>>, <<12784, 12799>>, <<12832, 12841>>,
      <<12872, 12879>>, <<12881, 12895>>, <<12928, 12937>>, <<12977, 12991>>,
      <<13312, 19903>>, <<19968, 42124>>, <<42192, 42237>>, <<42240, 42508>>,
      <<42512, 42539>>, <<42560, 42606>>, <<42623, 42653>>, <<42656, 42735>>,
      <<42775, 42783>>, <<42786, 42888>>, <<42891, 42954>>, <<42960, 42961>>,
      <<42963, 42963>>, <<42965, 42969>>, <<42994, 43009>>, <<43011, 43013>>,
      <<43015, 43018>>, <<43020, 43042>>, <<43056, 43061>>, <<43072, 43123>>,
      <<43138, 43187>>, <<43216, 43225>>, <<43250, 43255>>, <<43259, 43259>>,
      <<43261, 43262>>, <<43264, 43301>>, <<43312, 43334>>, <<43360, 43388>>,
      <<43396, 43442>>, <<43471, 43481>>, <<43488, 43492>>, <<43494, 43518>>,
      <<43520, 43560>>, <<43584, 43586>>, <<43588, 43595>>, <<43600, 43609>>,
      <<43616, 43638>>, <<43642, 43642>>, <<43646, 43695>>, <<43697, 43697>>,
      <<43701, 43702>>, <<43705, 43709>>, <<43712, 43712>>, <<43714, 43714>>,
      <<43739, 43741>>, <<43744, 43754>>, <<43762, 43764>>, <<43777, 43782>>,
      <<43785, 43790>>, <<43793, 43798>>, <<43808, 43814>>, <<43816, 43822>>,
      <<43824, 43866>>, <<43868, 43881>>, <<43888, 44002>>, <<44016, 44025>>,
      <<44032, 55203>>, <<55216, 55238>>, <<55243, 55291>>, <<63744, 64109>>,
      <<64112, 64217>>, <<64256, 64262>>, <<64275, 64279>>, <<64285, 64285>>,
      <<64287, 64296>>, <<64298, 64310>>, <<64312, 64316>>, <<64318, 64318>>,
      <<64320, 64321>>, <<64323, 64324>>, <<64326, 64433>>, <<64467, 64829>>,
      <<64848, 64911>>, <<64914, 64967>>, <<65008, 65019>>, <<65136, 65140>>,
      <<65142, 65276>>, <<65296, 65305>>, <<65313, 65338>>, <<65345, 65370>>,
      <<65382, 65470>>, <<65474, 65479>>, <<65482, 65487>>, <<65490, 65495>>,
      <<65498, 65500>>, <<65536, 65547>>, <<65549, 65574>>, <<65576, 65594>>,
      <<65596, 65597>>, <<65599, 65613>>, <<65616, 65629>>, <<65664, 65786>>,
      <<65799, 65843>>, <<65856, 65912>>, <<65930, 65931>>, <<66176, 66204>>,
      <<66208, 66256>>, <<66273, 66299>>, <<66304, 66339>>, <<66349, 66378>>,
      <<66384, 66421>>, <<66432, 66461>>, <<66464, 66499>>, <<66504, 66511>>,
      <<66513, 66517>>, <<66560, 66717>>, <<66720, 66729>>, <<66736, 66771>>,
      <<66776, 66811>>, <<66816, 66855>>, <<66864, 66915>>, <<66928, 66938>>,
      <<66940, 66954>>, <<66956, 66962>>, <<66964, 66965>>, <<66967, 66977>>,
      <<66979, 66993>>, <<66995, 67001>>, <<67003, 67004>>, <<67072, 67382>>,
      <<67392, 67413>>, <<67424, 67431>>, <<67456, 67461>>, <<67463, 67504>>,
      <<67506, 67514>>, <<67584, 67589>>, <<67592, 67592>>, <<67594, 67637>>,
      <<67639, 67640>>, <<67644, 67644>>, <<67647, 67669>>, <<67672, 67702>>,
      <<67705, 67742>>, <<67751, 67759>>, <<67808, 67826>>, <<67828, 67829>>,
      <<67835, 67867>>, <<67872, 67897>>, <<67968, 68023>>, <<68028, 68047>>,
      <<68050, 68096>>, <<68112, 68115>>, <<68117, 68119>>, <<68121, 68149>>,
      <<68160, 68168>>, <<68192, 68222>>, <<68224, 68255>>, <<68288, 68295>>,
      <<68297, 68324>>, <<68331, 68335>>, <<68352, 68405>>, <<68416, 68437>>,
      <<68440, 68466>>, <<68472, 68497>>, <<68521, 68527>>, <<68608, 68680>>,
      <<68736, 68786>>, <<68800, 68850>>, <<68858, 68899>>, <<68912, 68921>>,
      <<69216, 69246>>, <<69248, 69289>>, <<69296, 69297>>, <<69376, 69415>>,
      <<69424, 69445>>, <<69457, 69460>>, <<69488, 69505>>, <<69552, 69579>>,
      <<69600, 69622>>, <<69635, 69687>>, <<69714, 69743>>, <<69745, 69746>>,
      <<69749, 69749>>, <<69763, 69807>>, <<69840, 69864>>, <<69872, 69881>>,
      <<69891, 69926>>, <<69942, 69951>>, <<69956, 69956>>, <<69959, 69959>>,
      <<69968, 70002>>, <<70006, 70006>>, <<70019, 70066>>, <<70081, 70084>>,
      <<70096, 70106>>, <<70108, 70108>>, <<70113, 70132>>, <<70144, 70161>>,
      <<70163, 70187>>, <<70272, 70278>>, <<70280, 70280>>, <<70282, 70285>>,
      <<70287, 70301>>, <<70303, 70312>>, <<70320, 70366>>, <<70384, 70393>>,
      <<70405, 70412>>, <<70415, 70416>>, <<70419, 70440>>, <<70442, 70448>>,
      <<70450, 70451>>, <<70453, 70457>>, <<70461, 70461>>, <<70480, 70480>>,
      <<70493, 70497>>, <<70656, 70708>>, <<70727, 70730>>, <<70736, 70745>>,
      <<70751, 70753>>, <<70784, 70831>>, <<70852, 70853>>, <<70855, 70855>>,
      <<70864, 70873>>, <<71040, 71086>>, <<71128, 71131>>, <<71168, 71215>>,
      <<71236, 71236>>, <<71248, 71257>>, <<71296, 71338>>, <<71352, 71352>>,
      <<71360, 71369>>, <<71424, 71450>>, <<71472, 71483>>, <<71488, 71494>>,
      <<71680, 71723>>, <<71840, 71922>>, <<71935, 71942>>, <<71945, 71945>>,
      <<71948, 71955>>, <<71957, 71958>>, <<71960, 71983>>, <<71999, 71999>>,
      <<72001, 72001>>, <<72016, 72025>>, <<72096, 72103>>, <<72106, 72144>>,
      <<72161, 72161>>, <<72163, 72163>>, <<72192, 72192>>, <<72203, 72242>>,
      <<72250, 72250>>, <<72272, 72272>>, <<72284, 72329>>, <<72349, 72349>>,
      <<72368, 72440>>, <<72704, 72712>>, <<72714, 72750>>, <<72768, 72768>>,
      <<72784, 72812>>, <<72818, 72847>>, <<72960, 72966>>, <<72968, 72969>>,
      <<72971, 73008>>, <<73030, 73030>>, <<73040, 73049>>, <<73056, 73061>>,
      <<73063, 73064>>, <<73066, 73097>>, <<73112, 73112>>, <<73120, 73129>>,
      <<73440, 73458>>, <<73648, 73648>>, <<73664, 73684>>, <<73728, 74649>>,
      <<74752, 74862>>, <<74880, 75075>>, <<77712, 77808>>, <<77824, 78894>>,
      <<82944, 83526>>, <<92160, 92728>>, <<92736, 92766>>, <<92768, 92777>>,
      <<92784, 92862>>, <<92864, 92873>>, <<92880, 92909>>, <<92928, 92975>>,
      <<92992, 92995>>, <<93008, 93017>>, <<93019, 93025>>, <<93027, 93047>>,
      <<93053, 93071>>, <<93760, 93846>>, <<93952, 94026>>, <<94032, 94032>>,
      <<94099, 94111>>, <<94176, 94177>>, <<94179, 94179>>, <<94208, 100343>>,
      <<100352, 101589>>, <<101632, 101640>>, <<110576, 110579>>, <<110581, 110587>>,
      <<110589, 110590>>, <<110592, 110882>>, <<110928, 110930>>, <<110948, 110951>>,
      <<110960, 111355>>, <<113664, 113770>>, <<113776, 113788>>, <<113792, 113800>>,
      <<113808, 113817>>, <<119520, 119539>>, <<119648, 119672>>, <<119808, 119892>>,
      <<119894, 119964>>, <<119966, 119967>>, <<119970, 119970>>, <<119973, 119974>>,
      <<119977, 119980>>, <<119982, 119993>>, <<119995, 119995>>, <<119997, 120003>>,
      <<120005, 120069>>, <<120071, 120074>>, <<120077, 120084>>, <<120086, 120092>>,
      <<120094, 120121>>, <<120123, 120126>>, <<120128, 120132>>, <<120134, 120134>>,
      <<120138, 120144>>, <<120146, 120485>>, <<120488, 120512>>, <<120514, 120538>>,
      <<120540, 120570>>, <<120572, 120596>>, <<120598, 120628>>, <<120630, 120654>>,
      <<120656, 120686>>, <<120688, 120712>>, <<120714, 120744>>, <<120746, 120770>>,
      <<120772, 120779>>, <<120782, 120831>>, <<122624, 122654>>, <<123136, 123180>>,
      <<123191, 123197>>, <<123200, 123209>>, <<123214, 123214>>, <<123536, 123565>>,
      <<123584, 123627>>, <<123632, 123641>>, <<124896, 124902>>, <<124904, 124907>>,
      <<124909, 124910>>, <<124912, 124926>>, <<124928, 125124>>, <<125127, 125135>>,
      <<125184, 125251>>, <<125259, 125259>>, <<125264, 125273>>, <<126065, 126123>>,
      <<126125, 126127>>, <<126129, 126132>>, <<126209, 126253>>, <<126255, 126269>>,
      <<126464, 126467>>, <<126469, 126495>>, <<126497, 126498>>, <<126500, 126500>>,
      <<126503, 126503>>, <<126505, 126514>>, <<126516, 126519>>, <<126521, 126521>>,
      <<126523, 126523>>, <<126530, 126530>>, <<126535, 126535>>, <<126537, 126537>>,
      <<126539, 126539>>, <<126541, 126543>>, <<126545, 126546>>, <<126548, 126548>>,
      <<126551, 126551>>, <<126553, 126553>>, <<126555, 126555>>, <<126557, 126557>>,
      <<126559, 126559>>, <<126561, 126562>>, <<126564, 126564>>, <<126567, 126570>>,
      <<126572, 126578>>, <<126580, 126583>>, <<126585, 126588>>, <<126590, 126590>>,
      <<126592, 126601>>, <<126603, 126619>>, <<126625, 126627>>, <<126629, 126633>>,
      <<126635, 126651>>, <<127232, 127244>>, <<130032, 130041>>, <<131072, 173791>>,
      <<173824, 177976>>, <<177984, 178205>>, <<178208, 183969>>, <<183984, 191456>>,
      <<194560, 195101>>, <<196608, 201546>>
    >>

\* the default of the parameter max_chars of fetch_and_summarize
max_chars ==
    600

\* textwrap.TextWrapper._split with break_on_hyphens: the chunks of
\* wordsep_re.split(t), the empty ones left out.  A chunk is a run of white space
\* (textwrap's own list: tab, newline, VT, FF, CR, space), a run of two or more
\* hyphens between a word and a word character, or the shortest stretch of other
\* characters that ends after the hyphen of a hyphenated word, at the end of the
\* word, or before such a run of hyphens.
TextwrapSplit(t) ==
    LET n         == Len(t)
        Split(ws, word, letter, hyph) ==
          LET
            Ws(i)     == i \in ws
            Word(i)   == i \in word
            Letter(i) == i \in letter
            Hyph(i)   == i \in hyph
            WordPunct(i) == Word(i) \/ (i \in 1..n /\ t[i] \in {33, 34, 39, 38, 46, 44, 63})
            \* the last hyphen of the run of hyphens that starts at i
            RunEnd(i) == SetMax({j \in i..n : \A k \in i..j : Hyph(k)})
            \* -{2,}(?=\w) at i
            Dashes(i) == Hyph(i) /\ Hyph(i + 1) /\ Word(RunEnd(i) + 1)
            \* the hyphen at h ends a piece of a hyphenated word
            Breaks(h) ==
                /\ Hyph(h)
                /\ \/ Letter(h - 1) /\ Letter(h - 2)
                   \/ Letter(h - 1) /\ Hyph(h - 2) /\ Letter(h - 3)
                /\ Letter(h + 1)
                /\ \/ Letter(h + 2)
                   \/ Hyph(h + 2) /\ Letter(h + 3)
            \* the position of the last character of the chunk that starts at p
            ChunkEnd(p) ==
                IF Ws(p) THEN SetMax({j \in p..n : \A k \in p..j : Ws(k)})
                ELSE IF WordPunct(p - 1) /\ Dashes(p) THEN RunEnd(p)
                ELSE LET stop == SetMin({e \in p..n :
                                    \/ Breaks(e + 1)
                                    \/ e = n
                                    \/ Ws(e + 1)
                                    \/ WordPunct(e) /\ Dashes(e + 1)})
                     IN  IF Breaks(stop + 1) THEN stop + 1 ELSE stop
            RECURSIVE From(_)
            From(p) ==
                IF p > n THEN <<>>
                ELSE <<SubSeq(t, p, ChunkEnd(p))>> \o From(ChunkEnd(p) + 1)
          IN  From(1)
    IN  Only({Only({Split(ws, word, letter, hyph) :
                    ws     \in {{i \in 1..n : t[i] \in {9, 10, 11, 12, 13, 32}}},
                    letter \in {{i \in word : ~IsDigit(t[i])}},
                    hyph   \in {{i \in 1..n : t[i] = 45}}}) :
              word \in {{i \in 1..n : t[i] = 95 \/ InRanges(t[i], WORD_RANGES)}}})

\* textwrap.fill(t, width) with the defaults of TextWrapper: the chunks are put
\* on lines of at most width characters, white space dropped at the start of every
\* line but the first and at the end of every line, a chunk longer than a line
\* broken where the line is full or after its last hyphen before that
TextwrapFill(t, width) ==
    LET Blank(chunk) == \A i \in 1..Len(chunk) : IsSpace(chunk[i])
        RECURSIVE Total(_)
        Total(chunks) ==
            IF chunks = <<>> THEN 0 ELSE Len(chunks[1]) + Total(Tail(chunks))
        RECURSIVE Concat(_)
        Concat(chunks) ==
            IF chunks = <<>> THEN <<>> ELSE chunks[1] \o Concat(Tail(chunks))
        \* _handle_long_word: how much of the chunk goes on the line
        Cut(chunk, space_left) ==
            LET hyphens == {h \in 1..space_left : chunk[h] = 45}
                hyphen  == SetMax(hyphens)
            IN  IF /\ hyphens # {}
                   /\ hyphen > 1
                   /\ \E j \in 1..(hyphen - 1) : chunk[j] # 45
                  THEN hyphen
                  ELSE space_left
        RECURSIVE Lines(_, _)
        Lines(chunks0, lines) ==
            IF chunks0 = <<>> THEN lines
            ELSE
              LET Put(cur2, rest1) ==
                      Lines(rest1, IF cur2 # <<>> THEN Append(lines, Concat(cur2))
                                   ELSE lines)
                  Trim(cur1) ==
                      IF cur1 # <<>> /\ Blank(cur1[Len(cur1)])
                        THEN SubSeq(cur1, 1, Len(cur1) - 1) ELSE cur1
                  Long(cur, rest, end) ==
                      Put(Trim(Append(cur, SubSeq(rest[1], 1, end))),
                          <<SubSeq(rest[1], end + 1, Len(rest[1]))>> \o Tail(rest))
                  Fill(cur, rest) ==
                      IF rest # <<>> /\ Len(rest[1]) > width
                        THEN Long(cur, rest, Cut(rest[1], width - Total(cur)))
                        ELSE Put(Trim(cur), rest)
                  Take(chunks, fit) ==
                      Fill(SubSeq(chunks, 1, fit), SubSeq(chunks, fit + 1, Len(chunks)))
                  Start(chunks) ==
                      Take(chunks, SetMax({k \in 0..Len(chunks) :
                               \A j \in 1..k : Total(SubSeq(chunks, 1, j)) <= width}))
              IN  Start(IF Blank(chunks0[1]) /\ lines # <<>>
                          THEN Tail(chunks0) ELSE chunks0)
        RECURSIVE JoinLines(_)
        JoinLines(lines) ==
            IF lines = <<>> THEN <<>>
            ELSE IF Len(lines) = 1 THEN lines[1]
            ELSE lines[1] \o <<10>> \o JoinLines(Tail(lines))
    IN  Only({JoinLines(Lines(chunks, <<>>)) : chunks \in {TextwrapSplit(t)}})

\* page is the text of the page's paragraphs, joined by spaces; the result is
\* None when nothing is left of it
fetch_and_summarize(url, page) ==
    LET \* the first character of every run of white space, and the others
        kept == SelectSeq([i \in 1..Len(page) |-> i],
                          LAMBDA i : \/ ~IsSpace(page[i])
                                     \/ i = 1
                                     \/ ~IsSpace(page[i - 1]))
    IN  \* re.sub(r"\s+", " ", text).strip()
        Only({IF collapsed = <<>> THEN None
              ELSE F_SUMMARY_1
                   \o TextwrapFill(IF Len(collapsed) > max_chars
                                     THEN SubSeq(collapsed, 1, max_chars) \o <<46, 46, 46>>
                                     ELSE collapsed, 80)
                   \o F_SUMMARY_2 \o url :
              collapsed \in {Strip([k \in 1..Len(kept) |->
                                      IF IsSpace(page[kept[k]]) THEN 32
                                      ELSE page[kept[k]]])}})

\* a falsy text is None or the empty text
answer(query, net) ==
    CASE net = "raises"     -> MSG_SEARCH_ERROR
      [] net = "no_results" -> MSG_SEARCH_EMPTY
      [] OTHER ->
           Only({IF text = None \/ text = <<>>
                   THEN F_FOUND_1 \o SAMPLE_TITLE \o F_FOUND_2 \o SAMPLE_URL \o F_FOUND_3
                   ELSE text :
                 text \in {fetch_and_summarize(SAMPLE_URL,
                              IF net = "no_text" THEN <<>> ELSE SAMPLE_PAGE_TEXT)}})

(***************************************************************************)
(* EmotionEngine, modelled from its description: a magnitude per emotion   *)
(* (hundredths, floor 0), a pleasure/arousal/dominance vector clamped to   *)
(* [-100, 100], stimuli that add their weight, decay by a fixed fraction.  *)
(***************************************************************************)

EmotionTypes ==
    <<"joy", "sadness", "anger", "interest">>

EmotionValue(e) ==
    CASE e = "joy"      -> <<106, 111, 121>>
      [] e = "sadness"  -> <<115, 97, 100, 110, 101, 115, 115>>
      [] e = "anger"    -> <<97, 110, 103, 101, 114>>
      [] e = "interest" -> <<105, 110, 116, 101, 114, 101, 115, 116>>
      [] e = "neutral"  -> <<110, 101, 117, 116, 114, 97, 108>>

EmotionInit ==
    [mag |-> [e \in {"joy", "sadness", "anger", "interest"} |-> 0],
     pad |-> [pleasure |-> 0, arousal |-> 0, dominance |-> 0]]

Clamp(x) ==
    IF x > 100 THEN 100 ELSE IF x < -100 THEN -100 ELSE x

\* the per-emotion signature: joy +pleasure; sadness -pleasure -arousal;
\* anger -pleasure +arousal +dominance; interest +arousal
PadSignature(e) ==
    CASE e = "joy"      -> [pleasure |-> 1, arousal |-> 0, dominance |-> 0]
      [] e = "sadness"  -> [pleasure |-> -1, arousal |-> -1, dominance |-> 0]
      [] e = "anger"    -> [pleasure |-> -1, arousal |-> 1, dominance |-> 1]
      [] e = "interest" -> [pleasure |-> 0, arousal |-> 1, dominance |-> 0]

apply_stimulus(emo, e, weight) ==
    [mag |-> [emo.mag EXCEPT ![e] = @ + weight],
     pad |-> [k \in {"pleasure", "arousal", "dominance"} |->
                 Clamp(emo.pad[k] + PadSignature(e)[k] * weight)]]

\* every magnitude is pulled a tenth of the way to the floor
decay(emo) ==
    [emo EXCEPT !.mag = [e \in DOMAIN emo.mag |-> (emo.mag[e] * 9) \div 10]]

\* (emotion, confidence): the largest magnitude and its share of the total, a
\* float; neutral and 0.0 when every magnitude is at the floor
get_dominant_emotion(emo) ==
    LET total == emo.mag["joy"] + emo.mag["sadness"] + emo.mag["anger"]
                 + emo.mag["interest"]
        best  == SetMin({n \in 1..Len(EmotionTypes) :
                    \A k \in 1..Len(EmotionTypes) :
                       emo.mag[EmotionTypes[k]] <= emo.mag[EmotionTypes[n]]})
    IN  IF total = 0 THEN <<"neutral", Zero>>
        ELSE <<EmotionTypes[best],
               FloatDiv(FloatOf(BigOf(emo.mag[EmotionTypes[best]])).val,
                        FloatOf(BigOf(total)).val)>>

\* a label per octant of the pleasure/arousal/dominance vector
get_mood_description(emo) ==
    LET Sign(x) == IF x >= 0 THEN 43 ELSE 45
    IN  <<80, Sign(emo.pad.pleasure), 65, Sign(emo.pad.arousal),
          68, Sign(emo.pad.dominance)>>

(***************************************************************************)
(* ResponseGenerator (analyzer.py).  A result is [out, searches]: the      *)
(* returned text (None for Python's None) and the number of calls made to  *)
(* OnlineBrain.answer.                                                     *)
(***************************************************************************)

\* bool(x) for x a text or None
Truthy(x) ==
    x # None /\ x # <<>>

RECURSIVE Join(_, _)
\* sep.join(words)
Join(words, sep) ==
    IF words = <<>> THEN <<>>
    ELSE IF Len(words) = 1 THEN words[1]
    ELSE words[1] \o sep \o Join(Tail(words), sep)

_solve_math(operands) ==
    Only({IF r.raised = "ZeroDivisionError" THEN MSG_DIV_ZERO
          ELSE IF r.raised # "" THEN MSG_MATH_FAILED
          ELSE FormatEquation(operands[1], operands[2], operands[3], r.text) :
          r \in {Calc(operands[1], operands[2], operands[3])}})

\* online_brain: the generator was given an OnlineBrain
_answer_with_search(online_brain, analysis, net) ==
    LET query == CASE analysis.type = "definition" -> Q_DEFINITION \o analysis.subject
                   [] analysis.type = "how_to"     -> Q_HOW_TO \o analysis.subject
                   [] analysis.type = "who"        -> Q_WHO \o analysis.subject
                   [] OTHER                        -> analysis.subject
    IN  IF ~online_brain
          THEN [out |-> F_NEED_NET_1 \o analysis.subject \o F_NEED_NET_2,
                searches |-> 0]
          ELSE [out |-> answer(query, net), searches |-> 1]

\* context is a list of dictionaries, modelled as records: the entries that
\* run_cycle passes are {role, content} and have no key "input"
_answer_generic_question(analysis, context) ==
    IF Len(context) > 0
      THEN LET last       == context[Len(context)]
               last_topic == IF "input" \in DOMAIN last THEN last.input ELSE <<>>
           IN  [out |-> F_GENERIC_1 \o last_topic \o F_GENERIC_2, searches |-> 0]
      ELSE [out |-> MSG_GENERIC_NOCTX, searches |-> 0]

_answer_by_keywords(online_brain, analysis, net) ==
    LET keywords == analysis.keywords
        tech == \E n \in 1..Len(keywords) :
                   \/ keywords[n] \in TECH_WORDS
                   \/ \E tw \in TECH_WORDS : Contains(keywords[n], tw)
    IN  IF tech
          THEN IF online_brain
                 THEN [out |-> answer(Join(SubSeq(keywords, 1,
                                          IF Len(keywords) < 3 THEN Len(keywords)
                                          ELSE 3),
                                          <<32>>), net),
                       searches |-> 1]
                 ELSE [out |-> MSG_TECH_NO_SEARCH, searches |-> 0]
          ELSE [out |-> None, searches |-> 0]

\* ResponseGenerator(online_brain).generate(text, context)
generate(online_brain, text, context, net) ==
    Only({IF analysis.raised # ""
            THEN [out |-> ValueError, searches |-> 0]
          ELSE IF analysis.type = "math"
            THEN [out |-> _solve_math(analysis.operands), searches |-> 0]
          ELSE IF analysis.type \in {"definition", "how_to", "why", "who",
                                     "compare", "list"}
            THEN _answer_with_search(online_brain, analysis, net)
          ELSE IF analysis.is_question /\ ~analysis.has_subject
            THEN _answer_generic_question(analysis, context)
          ELSE IF analysis.keywords # <<>>
            THEN _answer_by_keywords(online_brain, analysis, net)
          ELSE [out |-> None, searches |-> 0] :
          analysis \in {analyze(text)}})

(***************************************************************************)
(* SkillSystem (skill_system.py).  A ledger is [skills, total_experience,  *)
(* current_cycle]; Skill.experience and total_experience are floats.       *)
(***************************************************************************)

\* float(n) for an int n of machine size
FloatOfInt(n) ==
    RoundDouble(n < 0, BigOf(IF n < 0 THEN -n ELSE n), 0, FALSE).val

\* the float literal 1.0
Float_1_0 ==
    [neg |-> FALSE, m |-> <<0, 0, 0, 128>>, e |-> -52]

\* the float literal 2.0
Float_2_0 ==
    [neg |-> FALSE, m |-> <<0, 0, 0, 128>>, e |-> -51]

\* the float literal 0.5: the double nearest to 1/2
Float_0_5 ==
    [neg |-> FALSE, m |-> <<0, 0, 0, 128>>, e |-> -53]

\* the float literal 0.01: the double nearest to 1/100
Float_0_01 ==
    [neg |-> FALSE, m |-> <<5243, 3932, 27525, 163>>, e |-> -59]

\* the float literal 0.001: the double nearest to 1/1000
Float_0_001 ==
    [neg |-> FALSE, m |-> <<10748, 9699, 2359, 131>>, e |-> -62]

\* list(SkillLevel), in declaration order
SkillLevel ==
    <<"NOVICE", "BEGINNER", "INTERMEDIATE", "ADVANCED", "EXPERT">>

\* XP_THRESHOLDS, in the order of SkillLevel
XP_THRESHOLDS ==
    <<0, 100, 500, 2000, 10000>>

\* the names of _init_default_skills
DefaultSkills ==
    {"privetstvie", "poisk_v_internete", "empatiya", "analiz", "kreativnost"}

\* Skill(name, category, tags) with the dataclass defaults
NewSkill ==
    [experience |-> Zero, level |-> "NOVICE", uses |-> 0, last_used_cycle |-> 0]

\* SkillSystem.__init__
LedgerInit ==
    [skills           |-> [n \in DefaultSkills |-> NewSkill],
     total_experience |-> Zero,
     current_cycle    |-> 0]

\* x >= n for a float x and an int n >= 0: the whole part of x is at least n
AtLeast(x, n) ==
    IF IsZero(x) THEN n = 0
    ELSE IF x.neg THEN FALSE
    ELSE IF BitLen(x.m) + x.e > 31 THEN TRUE
    ELSE IF x.e >= 0 THEN BigCmp(BigShl(x.m, x.e), BigOf(n)) >= 0
    ELSE BigCmp(BigShr(x.m, -x.e), BigOf(n)) >= 0

_update_level(skill) ==
    Only({IF met = {} THEN skill ELSE [skill EXCEPT !.level = SkillLevel[SetMax(met)]] :
          met \in {{n \in 1..Len(SkillLevel) :
                      AtLeast(skill.experience, XP_THRESHOLDS[n])}}})

\* UseXp without the cap of the bonus
UseXpUncapped(uses, success) ==
    Only({FloatMul(FloatOfInt(IF success THEN 10 ELSE 3), bonus) :
          bonus \in {FloatAdd(Float_1_0, FloatMul(FloatOfInt(uses), Float_0_01))}})

\* the XP one use grants: base_xp * min(1.0 + (uses * 0.01), 2.0)
UseXp(uses, success) ==
    Only({FloatMul(FloatOfInt(IF success THEN 10 ELSE 3),
                   IF FloatCmp(Float_2_0, bonus) < 0 THEN Float_2_0 ELSE bonus) :
          bonus \in {FloatAdd(Float_1_0, FloatMul(FloatOfInt(uses), Float_0_01))}})

\* use_skill that leaves the lifetime total as it was
UseSkillOffTheBooks(L, name, success, cycle) ==
    LET skills0 == IF name \in DOMAIN L.skills THEN L.skills
                   ELSE [n \in DOMAIN L.skills \cup {name} |->
                           IF n = name THEN NewSkill ELSE L.skills[n]]
    IN  Only({[ledger |-> [skills |-> [skills0 EXCEPT ![name] = _update_level(
                                         [@ EXCEPT
                                            !.experience = FloatAdd(@, xp),
                                            !.uses = @ + 1,
                                            !.last_used_cycle =
                                                IF cycle # <<>> THEN cycle[1]
                                                ELSE L.current_cycle])],
                           total_experience |-> L.total_experience,
                           current_cycle    |-> L.current_cycle],
               xp |-> xp] :
              xp \in {UseXp(skills0[name].uses, success)}})

\* use_skill(name, success, cycle); cycle is <<>> for None and <<c>> for c.
\* The result is [ledger, xp].
use_skill(L, name, success, cycle) ==
    LET skills0 == IF name \in DOMAIN L.skills THEN L.skills
                   ELSE [n \in DOMAIN L.skills \cup {name} |->
                           IF n = name THEN NewSkill ELSE L.skills[n]]
    IN  Only({[ledger |-> [skills |-> [skills0 EXCEPT ![name] = _update_level(
                                         [@ EXCEPT
                                            !.experience = FloatAdd(@, xp),
                                            !.uses = @ + 1,
                                            !.last_used_cycle =
                                                IF cycle # <<>> THEN cycle[1]
                                                ELSE L.current_cycle])],
                           total_experience |-> FloatAdd(L.total_experience, xp),
                           current_cycle    |-> L.current_cycle],
               xp |-> xp] :
              xp \in {UseXp(skills0[name].uses, success)}})

\* cycles without use after which a skill starts to decay
DORMANCY ==
    50

\* max(0.0, grown - grown * 0.001 * cycles)
Decayed(grown, cycles) ==
    Only({IF FloatCmp(left, Zero) > 0 THEN left ELSE Zero :
          left \in {FloatSub(grown, FloatMul(FloatMul(grown, Float_0_001),
                                             FloatOfInt(cycles)))}})

\* TickSkill with the decay applied whatever the dormancy
TickSkillAlwaysDecaying(skill, passive_xp, n_skills, now, cycles) ==
    Only({_update_level([skill EXCEPT !.experience = Decayed(grown, cycles)]) :
          grown \in {FloatAdd(skill.experience,
                              FloatDiv(passive_xp, FloatOfInt(IF n_skills > 1
                                                              THEN n_skills ELSE 1)))}})

\* TickSkill that leaves the level as it was
TickSkillKeepingLevel(skill, passive_xp, n_skills, now, cycles) ==
    Only({[skill EXCEPT !.experience =
              IF now - skill.last_used_cycle > DORMANCY /\ FloatCmp(grown, Zero) > 0
              THEN Decayed(grown, cycles) ELSE grown] :
          grown \in {FloatAdd(skill.experience,
                              FloatDiv(passive_xp, FloatOfInt(IF n_skills > 1
                                                              THEN n_skills ELSE 1)))}})

\* TickSkill that gives every skill the whole passive XP instead of its share
TickSkillUndivided(skill, passive_xp, n_skills, now, cycles) ==
    Only({_update_level([skill EXCEPT !.experience =
              IF now - skill.last_used_cycle > DORMANCY /\ FloatCmp(grown, Zero) > 0
              THEN Decayed(grown, cycles) ELSE grown]) :
          grown \in {FloatAdd(skill.experience, passive_xp)}})

\* the loop body of tick for one skill, current_cycle already advanced
TickSkill(skill, passive_xp, n_skills, now, cycles) ==
    Only({_update_level([skill EXCEPT !.experience =
              IF now - skill.last_used_cycle > DORMANCY /\ FloatCmp(grown, Zero) > 0
              THEN Decayed(grown, cycles) ELSE grown]) :
          grown \in {FloatAdd(skill.experience,
                              FloatDiv(passive_xp, FloatOfInt(IF n_skills > 1
                                                              THEN n_skills ELSE 1)))}})

\* tick with the decay applied to the lifetime total as well
TickDecayingTotal(L, cycles) ==
    Only({[skills           |-> [n \in DOMAIN L.skills |->
                                   TickSkill(L.skills[n], passive_xp,
                                             Cardinality(DOMAIN L.skills),
                                             L.current_cycle + cycles, cycles)],
           total_experience |-> Decayed(FloatAdd(L.total_experience, passive_xp), cycles),
           current_cycle    |-> L.current_cycle + cycles] :
          passive_xp \in {FloatMul(Float_0_5, FloatOfInt(cycles))}})

tick(L, cycles) ==
    Only({[skills           |-> [n \in DOMAIN L.skills |->
                                   TickSkill(L.skills[n], passive_xp,
                                             Cardinality(DOMAIN L.skills),
                                             L.current_cycle + cycles, cycles)],
           total_experience |-> FloatAdd(L.total_experience, passive_xp),
           current_cycle    |-> L.current_cycle + cycles] :
          passive_xp \in {FloatMul(Float_0_5, FloatOfInt(cycles))}})

\* get_level: the index of the skill's level in list(SkillLevel), 0 when unknown
get_level(L, name) ==
    IF name \notin DOMAIN L.skills THEN 0
    ELSE SetMin({n \in 1..Len(SkillLevel) : SkillLevel[n] = L.skills[name].level}) - 1

\* The smallest floats y with int(math.log10(y) * 2) >= k for k = 0, 1, ..., as
\* the four digits of m and e: math.log10 rounds its result, so most of them are a
\* few floats below 10^(k/2)
LOG_STEPS ==
    <<<<0, 0, 0, 128, -52>>, <<23378, 30132, 12640, 202, -51>>, <<0, 0, 0, 160, -49>>,
      <<29221, 4897, 32185, 252, -48>>, <<32767, 32767, 32767, 199, -46>>,
      <<5974, 23541, 3731, 158, -44>>, <<32763, 32767, 32767, 249, -43>>,
      <<15660, 21234, 21048, 197, -41>>, <<32766, 32767, 8191, 156, -39>>,
      <<3185, 26543, 1734, 247, -38>>, <<32762, 32767, 10239, 195, -36>>,
      <<14279, 8397, 13372, 154, -34>>, <<32759, 32767, 4607, 244, -33>>,
      <<26041, 10496, 331, 193, -31>>, <<32763, 32767, 19263, 152, -29>>,
      <<32551, 4928, 8606, 241, -28>>, <<32762, 32767, 24079, 190, -26>>,
      <<20339, 27656, 25858, 150, -24>>, <<32750, 32767, 13715, 238, -23>>,
      <<25424, 18186, 15939, 188, -21>>, <<32758, 16383, 380, 149, -19>>,
      <<15395, 14541, 19924, 235, -18>>, <<32755, 20479, 8667, 186, -16>>,
      <<13719, 25472, 8356, 147, -14>>, <<32751, 17407, 27218, 232, -13>>,
      <<17148, 31840, 2253, 184, -11>>, <<32758, 19071, 17011, 145, -9>>,
      <<21435, 15224, 2817, 230, -8>>, <<32756, 15647, 29456, 181, -6>>,
      <<13397, 29995, 26336, 143, -4>>, <<32752, 19559, 12244, 227, -3>>,
      <<8554, 4726, 24729, 179, -1>>, <<32758, 28608, 3556, 142, 1>>,
      <<27060, 14099, 22719, 224, 2>>, <<8167, 2993, 20830, 177, 4>>,
      <<12817, 21100, 14199, 140, 6>>, <<18400, 20125, 1461, 222, 7>>,
      <<16021, 18183, 17749, 175, 9>>, <<15596, 16674, 25489, 138, 11>>,
      <<11834, 30921, 13994, 219, 12>>, <<3112, 29035, 15477, 173, 14>>,
      <<27877, 27517, 4650, 137, 16>>, <<28465, 11717, 27539, 216, 17>>,
      <<10269, 18013, 14005, 171, 19>>, <<21887, 3227, 17212, 135, 21>>,
      <<21029, 30708, 9314, 214, 22>>, <<19167, 4034, 13323, 169, 24>>,
      <<29527, 27384, 30397, 133, 26>>, <<7574, 29619, 24845, 211, 27>>,
      <<4141, 9655, 13421, 167, 29>>, <<638, 22608, 11432, 132, 31>>,
      <<29752, 20260, 8584, 209, 32>>, <<797, 28260, 14290, 165, 34>>,
      <<2211, 12663, 25845, 130, 36>>, <<997, 18941, 26055, 206, 37>>,
      <<27340, 24020, 15922, 163, 39>>, <<4719, 24126, 8092, 129, 41>>,
      <<1406, 13642, 11711, 204, 42>>, <<22283, 30157, 18307, 161, 44>>,
      <<18142, 8860, 14639, 255, 45>>, <<3277, 29505, 31076, 201, 47>>,
      <<27723, 17825, 21437, 159, 49>>, <<12288, 4113, 14270, 252, 50>>,
      <<10078, 30474, 18604, 199, 52>>, <<28160, 27146, 25302, 157, 54>>,
      <<28944, 5324, 15064, 249, 55>>, <<18788, 17549, 7052, 197, 57>>,
      <<1707, 3328, 29895, 155, 59>>, <<31677, 21936, 17007, 246, 60>>,
      <<2134, 28736, 29176, 194, 62>>, <<19798, 25998, 2437, 154, 64>>,
      <<2667, 3152, 20087, 243, 65>>, <<8364, 7922, 19431, 192, 67>>,
      <<1667, 14258, 8458, 152, 69>>, <<26838, 1710, 24289, 240, 70>>,
      <<18468, 1438, 10573, 190, 72>>, <<8582, 21549, 15180, 150, 74>>,
      <<6699, 9990, 29600, 237, 75>>, <<18919, 26936, 2591, 188, 77>>,
      <<28764, 6243, 22596, 148, 79>>, <<23650, 25478, 3239, 235, 80>>,
      <<27763, 7804, 28245, 185, 82>>, <<6589, 28212, 30696, 146, 84>>,
      <<1935, 17948, 10730, 232, 85>>, <<8236, 2497, 21987, 183, 87>>,
      <<17594, 19409, 6706, 145, 89>>, <<18486, 27697, 19291, 229, 90>>,
      <<30184, 7877, 16575, 181, 92>>, <<32035, 13214, 16153, 143, 94>>,
      <<13154, 1655, 28911, 226, 95>>, <<23659, 24710, 11999, 179, 97>>,
      <<20509, 13322, 26261, 141, 99>>, <<13190, 22696, 6807, 224, 100>>,
      <<9253, 24845, 8250, 177, 102>>, <<8244, 26473, 4254, 140, 104>>,
      <<19758, 14672, 18505, 221, 105>>, <<18497, 16707, 5318, 175, 107>>,
      <<12349, 29650, 15661, 138, 109>>, <<14929, 4500, 31224, 218, 110>>,
      <<31820, 12486, 3193, 173, 112>>, <<25715, 2812, 27707, 136, 114>>,
      <<23390, 23800, 12183, 216, 115>>, <<32143, 28091, 1865, 171, 117>>,
      <<14619, 27163, 7614, 135, 119>>, <<31987, 10538, 26908, 213, 120>>,
      <<10082, 17570, 1326, 169, 122>>, <<28184, 22970, 20913, 133, 124>>,
      <<28986, 5578, 9850, 211, 125>>, <<18846, 4137, 1566, 167, 127>>,
      <<26309, 11678, 2060, 132, 129>>, <<31749, 21555, 26533, 208, 130>>,
      <<16502, 14598, 2575, 165, 132>>, <<15748, 17568, 16583, 130, 134>>,
      <<4243, 10056, 11411, 206, 135>>, <<19684, 13768, 4345, 163, 137>>,
      <<2652, 2189, 31708, 128, 139>>, <<24605, 25402, 30007, 203, 140>>,
      <<11507, 2736, 6867, 161, 142>>, <<14372, 23561, 29317, 254, 143>>,
      <<14384, 27996, 16775, 201, 145>>, <<29463, 18821, 10131, 159, 147>>,
      <<17979, 26803, 29161, 251, 148>>, <<12252, 15335, 4472, 199, 150>>,
      <<7141, 4464, 14130, 157, 152>>, <<7123, 19169, 30166, 248, 153>>,
      <<8926, 21964, 25854, 196, 155>>, <<24932, 3788, 18854, 155, 157>>,
      <<11158, 11071, 32318, 245, 158>>, <<31165, 21119, 15375, 194, 160>>,
      <<19218, 31495, 24294, 153, 162>>, <<30695, 18207, 2835, 243, 163>>,
      <<15830, 22985, 5792, 192, 165>>, <<31472, 7283, 30444, 151, 167>>,
      <<27979, 28731, 7240, 240, 168>>, <<31148, 9104, 29863, 189, 170>>,
      <<13391, 17957, 4525, 150, 172>>, <<6166, 3189, 12753, 237, 173>>,
      <<24931, 30638, 22040, 187, 175>>, <<7951, 22473, 12066, 148, 177>>,
      <<14779, 5530, 19359, 234, 178>>, <<18130, 11707, 15083, 185, 180>>,
      <<17429, 15744, 20291, 146, 182>>, <<14471, 6442, 27046, 231, 183>>,
      <<21787, 11488, 8980, 183, 185>>, <<17236, 28602, 29191, 144, 187>>,
      <<27233, 14360, 3033, 229, 188>>, <<5161, 27561, 3721, 181, 190>>,
      <<17021, 29455, 5991, 143, 192>>, <<14643, 9875, 12844, 226, 193>>,
      <<13084, 28627, 32065, 178, 195>>, <<5056, 22556, 16219, 141, 197>>,
      <<8163, 11208, 23698, 223, 198>>, <<6320, 20003, 28466, 176, 200>>,
      <<5102, 15197, 27099, 139, 202>>, <<32476, 8619, 2815, 221, 203>>,
      <<14569, 10804, 25682, 174, 205>>, <<16202, 17675, 5855, 138, 207>>,
      <<18211, 29889, 15718, 218, 208>>, <<12060, 13902, 23703, 172, 210>>,
      <<31862, 10488, 18016, 136, 212>>, <<31459, 9185, 29629, 215, 213>>,
      <<7060, 13111, 22520, 170, 215>>, <<7374, 9837, 30806, 134, 217>>,
      <<633, 16389, 11766, 213, 218>>, <<17409, 28680, 22123, 168, 220>>,
      <<4492, 2051, 11450, 133, 222>>, <<21762, 27658, 27654, 210, 223>>,
      <<30190, 18947, 22504, 166, 225>>, <<21793, 9094, 25476, 131, 227>>,
      <<29546, 23684, 11746, 208, 228>>, <<10857, 11368, 23653, 164, 230>>,
      <<2082, 22995, 7341, 130, 232>>, <<13572, 22402, 29566, 205, 233>>,
      <<27179, 4167, 25561, 162, 235>>, <<16675, 5809, 22575, 128, 237>>,
      <<25781, 13401, 15567, 203, 238>>, <<29035, 31837, 28218, 160, 240>>,
      <<7651, 8560, 11267, 254, 241>>, <<11718, 23413, 2505, 201, 243>>,
      <<4782, 1254, 31618, 158, 245>>, <<22838, 4690, 11324, 251, 246>>,
      <<22361, 17951, 23138, 198, 248>>, <<22467, 19315, 2981, 157, 250>>,
      <<19759, 6055, 12539, 248, 251>>, <<19891, 32336, 11918, 196, 253>>,
      <<24638, 32456, 7836, 155, 255>>, <<24864, 24036, 14898, 245, 256>>,
      <<30797, 7802, 1604, 194, 258>>, <<31924, 23214, 13407, 153, 260>>,
      <<22112, 9753, 18389, 242, 261>>, <<23521, 20826, 24951, 191, 263>>,
      <<1532, 10192, 19685, 151, 265>>, <<13017, 17841, 22997, 239, 266>>,
      <<1915, 20932, 16414, 189, 268>>, <<28616, 15246, 26661, 149, 270>>,
      <<2393, 9781, 28710, 236, 271>>, <<19386, 27250, 8750, 187, 273>>,
      <<5592, 30689, 1559, 148, 275>>, <<7848, 17679, 2746, 234, 276>>,
      <<15182, 30169, 1949, 185, 278>>, <<17193, 19241, 9908, 146, 280>>,
      <<27170, 13135, 10629, 231, 281>>, <<29683, 24051, 28769, 182, 283>>,
      <<29269, 12305, 18931, 144, 285>>, <<28912, 5488, 19578, 228, 286>>,
      <<12010, 7190, 23664, 180, 288>>, <<18070, 11622, 28620, 142, 290>>,
      <<31397, 8987, 29580, 225, 291>>, <<6204, 14528, 19391, 178, 293>>,
      <<15527, 22001, 6199, 141, 295>>, <<7754, 9968, 7855, 223, 296>>,
      <<27601, 19309, 15941, 176, 298>>, <<4847, 18518, 17197, 139, 300>>,
      <<9925, 32329, 19926, 220, 301>>, <<22442, 31339, 13304, 174, 303>>,
      <<26684, 12013, 28838, 137, 305>>, <<19861, 6406, 247, 218, 306>>,
      <<8778, 31401, 11471, 172, 308>>, <<4221, 16292, 8346, 136, 310>>,
      <<19165, 31059, 14339, 215, 311>>, <<5276, 3981, 10433, 170, 313>>,
      <<7882, 15316, 21250, 134, 315>>, <<14787, 13168, 29425, 212, 316>>,
      <<9853, 2761, 10179, 168, 318>>, <<9242, 28710, 2006, 133, 320>>,
      <<20508, 28027, 12723, 210, 321>>, <<27937, 19503, 10700, 166, 323>>,
      <<8721, 13421, 16144, 131, 325>>, <<26728, 24379, 29759, 207, 326>>,
      <<19094, 16776, 11988, 164, 328>>, <<12610, 27525, 30887, 129, 330>>,
      <<23867, 20970, 14985, 205, 331>>, <<23954, 26214, 14033, 162, 333>>,
      <<23109, 818, 13462, 128, 335>>, <<13558, 8192, 1158, 203, 336>>,
      <<12502, 17407, 16827, 160, 338>>, <<16948, 26624, 26023, 253, 339>>,
      <<7436, 13567, 21034, 200, 341>>, <<10592, 28928, 20360, 158, 343>>,
      <<1102, 575, 26293, 250, 344>>, <<13240, 3392, 9067, 198, 346>>,
      <<12977, 4455, 24625, 156, 348>>, <<16550, 28816, 27717, 247, 349>>,
      <<8029, 13761, 30781, 195, 351>>, <<10344, 22106, 29611, 154, 353>>,
      <<18229, 25393, 30284, 244, 354>>, <<29314, 19440, 20630, 193, 356>>,
      <<31873, 32254, 2543, 153, 358>>, <<3875, 7917, 1212, 242, 359>>,
      <<23457, 32126, 11371, 191, 361>>, <<6518, 21332, 8949, 151, 363>>,
      <<12937, 31966, 6022, 239, 364>>, <<8147, 2089, 2995, 189, 366>>,
      <<32662, 11786, 16052, 149, 368>>, <<18375, 27187, 11935, 236, 369>>,
      <<24443, 14733, 28257, 186, 371>>, <<7389, 29280, 23843, 147, 373>>,
      <<5844, 26609, 18937, 233, 374>>, <<9130, 28408, 21612, 184, 376>>,
      <<24132, 4342, 32316, 145, 378>>, <<11412, 2742, 27016, 230, 379>>,
      <<13782, 5428, 15819, 182, 381>>, <<31709, 1713, 8693, 144, 383>>,
      <<17226, 31361, 3389, 228, 384>>, <<15060, 10334, 10866, 180, 386>>,
      <<31247, 23696, 18502, 142, 388>>, <<2441, 29302, 13582, 225, 389>>,
      <<6291, 13237, 6744, 178, 391>>, <<26102, 10121, 28969, 140, 393>>,
      <<16054, 16546, 24814, 222, 394>>, <<8051, 20844, 3443, 176, 396>>,
      <<18227, 2149, 7317, 139, 398>>, <<10064, 17863, 4304, 220, 399>>,
      <<30975, 10878, 954, 174, 401>>, <<18578, 11164, 19074, 137, 403>>,
      <<22334, 29982, 17576, 217, 404>>, <<23222, 30339, 32034, 171, 406>>,
      <<5767, 18739, 31465, 135, 408>>, <<20836, 21540, 31851, 214, 409>>,
      <<31785, 31615, 31139, 169, 411>>, <<29407, 9366, 11715, 134, 413>>,
      <<31540, 31327, 14348, 212, 414>>, <<20374, 3516, 31028, 167, 416>>,
      <<32000, 3195, 25352, 132, 418>>, <<25467, 4395, 30593, 209, 419>>,
      <<31808, 3994, 31690, 165, 421>>, <<11821, 23227, 6832, 131, 423>>,
      <<23376, 21377, 15036, 207, 424>>, <<6585, 29034, 348, 164, 426>>,
      <<2322, 29745, 21685, 129, 428>>, <<24615, 3524, 436, 205, 429>>,
      <<11095, 12605, 2531, 162, 431>>, <<31768, 18586, 4368, 128, 433>>,
      <<22060, 7564, 19548, 202, 434>>, <<23326, 23233, 5460, 160, 436>>,
      <<27575, 9455, 8051, 253, 437>>, <<4582, 29042, 6825, 200, 439>>,
      <<29523, 1813, 9128, 158, 441>>, <<22111, 11726, 8532, 250, 442>>,
      <<12327, 2267, 27794, 197, 444>>, <<5627, 23713, 13524, 156, 446>>,
      <<7217, 19218, 10166, 247, 447>>, <<15226, 29641, 16905, 195, 449>>,
      <<12703, 3819, 18642, 154, 451>>, <<27223, 12475, 12940, 244, 452>>,
      <<7686, 21158, 6918, 193, 454>>, <<12920, 24181, 24471, 152, 456>>,
      <<25991, 10063, 16840, 241, 457>>, <<24341, 22034, 30589, 190, 459>>,
      <<28533, 6289, 31005, 150, 461>>, <<14042, 2967, 21853, 238, 462>>,
      <<11090, 16054, 22372, 188, 464>>, <<21065, 5950, 5466, 149, 466>>,
      <<30246, 20067, 27965, 235, 467>>, <<9947, 23822, 15024, 186, 469>>,
      <<14808, 16638, 13382, 147, 471>>, <<28816, 29777, 2396, 233, 472>>,
      <<2126, 4414, 8536, 184, 474>>, <<5723, 2227, 21978, 145, 476>>,
      <<19041, 5517, 10670, 230, 477>>, <<31730, 19167, 2896, 182, 479>>,
      <<15997, 28024, 31244, 143, 481>>, <<31470, 23959, 20004, 227, 482>>,
      <<19996, 2262, 30864, 179, 484>>, <<31957, 31358, 8406, 142, 486>>,
      <<8611, 2828, 30388, 224, 487>>, <<23562, 22814, 26892, 177, 489>>,
      <<21766, 18151, 18992, 140, 491>>, <<13068, 28518, 9039, 222, 492>>,
      <<19016, 22689, 23740, 175, 494>>, <<32744, 30111, 30225, 138, 496>>,
      <<31961, 28361, 21483, 219, 497>>, <<32738, 13063, 21398, 173, 499>>,
      <<7688, 13630, 9331, 137, 501>>, <<32730, 32713, 2171, 217, 502>>,
      <<25994, 8845, 19856, 171, 504>>, <<8169, 16350, 21837, 135, 506>>,
      <<7916, 11057, 16628, 214, 507>>, <<26594, 28629, 19104, 169, 509>>,
      <<25428, 23294, 2200, 134, 511>>, <<8667, 3019, 32073, 211, 512>>,
      <<15401, 29118, 19134, 167, 514>>, <<1321, 22367, 15949, 132, 516>>,
      <<2867, 20014, 15726, 209, 517>>, <<26227, 3382, 19937, 165, 519>>,
      <<26368, 4316, 30309, 130, 521>>, <<16400, 12420, 345, 207, 522>>,
      <<192, 13588, 21502, 163, 524>>, <<26634, 28242, 12503, 129, 526>>,
      <<239, 601, 18686, 204, 527>>, <<16909, 27111, 23821, 161, 529>>,
      <<8491, 17135, 23357, 255, 530>>, <<12943, 9313, 5201, 202, 532>>,
      <<17595, 14805, 26886, 159, 534>>, <<24371, 19833, 22885, 252, 535>>,
      <<30186, 2122, 25416, 199, 537>>, <<2944, 16492, 30687, 157, 539>>,
      <<21348, 2653, 23578, 249, 540>>, <<3680, 12423, 13783, 197, 542>>,
      <<17439, 9850, 2448, 156, 544>>, <<29176, 7336, 25421, 246, 545>>,
      <<5415, 12313, 3060, 195, 547>>, <<18235, 8681, 7696, 154, 549>>,
      <<14959, 15391, 28401, 243, 550>>, <<30986, 10851, 26004, 192, 552>>,
      <<21638, 30099, 13654, 152, 554>>, <<30540, 13564, 32505, 240, 555>>,
      <<18856, 21240, 17068, 190, 557>>, <<2704, 28958, 20315, 150, 559>>,
      <<23569, 26550, 4951, 238, 560>>, <<19764, 28005, 9010, 188, 562>>,
      <<6539, 28882, 27670, 148, 564>>, <<129, 18623, 11263, 235, 565>>,
      <<24558, 19718, 1820, 186, 567>>, <<12369, 23927, 2943, 147, 569>>,
      <<14312, 24648, 18659, 232, 570>>, <<7269, 21717, 28255, 183, 572>>,
      <<8946, 11309, 11662, 145, 574>>, <<17277, 18954, 27127, 229, 575>>,
      <<19374, 30520, 22769, 181, 577>>, <<18991, 24134, 21050, 143, 579>>,
      <<24218, 13574, 3886, 227, 580>>, <<7354, 13784, 18121, 179, 582>>,
      <<6944, 292, 31101, 141, 584>>, <<9193, 25422, 14459, 224, 585>>,
      <<8680, 8557, 14300, 177, 587>>, <<30322, 11792, 9037, 140, 589>>,
      <<19042, 10696, 26067, 221, 590>>, <<5134, 22933, 11296, 175, 592>>,
      <<11901, 2589, 20388, 138, 594>>, <<14609, 28666, 5928, 219, 595>>,
      <<23069, 3236, 9101, 173, 597>>, <<17323, 17916, 32377, 136, 599>>,
      <<28836, 12237, 19568, 216, 600>>, <<21653, 30587, 7703, 171, 602>>,
      <<22119, 7648, 12230, 135, 604>>, <<18875, 30042, 1437, 214, 605>>,
      <<27648, 25944, 7095, 169, 607>>, <<19989, 22872, 25474, 133, 609>>,
      <<1792, 24239, 17061, 211, 610>>, <<24986, 12206, 7267, 167, 612>>,
      <<13408, 19245, 6567, 132, 614>>, <<14848, 7066, 892, 209, 615>>,
      <<24952, 15864, 8209, 165, 617>>, <<17473, 20800, 21037, 130, 619>>,
      <<31190, 28022, 18453, 206, 620>>, <<21840, 1424, 9913, 163, 622>>,
      <<11302, 21610, 3341, 129, 624>>, <<27300, 9972, 4199, 204, 625>>,
      <<30511, 2436, 12369, 161, 627>>, <<1357, 4274, 5249, 255, 628>>,
      <<5371, 11238, 23653, 201, 630>>, <<9041, 23151, 15568, 159, 632>>,
      <<23098, 22239, 4990, 252, 633>>, <<3109, 28939, 11268, 199, 635>>,
      <<26724, 5707, 19503, 157, 637>>, <<28462, 3405, 5894, 249, 638>>,
      <<25213, 31710, 32570, 196, 640>>, <<21885, 26704, 24163, 155, 642>>,
      <<15131, 23254, 7945, 246, 643>>, <<27356, 25188, 22012, 194, 645>>,
      <<1266, 2246, 29542, 153, 647>>, <<1426, 31486, 11131, 243, 648>>,
      <<17966, 19191, 12351, 192, 650>>, <<25468, 15582, 2861, 152, 652>>,
      <<14266, 15797, 15439, 240, 653>>, <<15450, 27670, 3576, 190, 655>>,
      <<13012, 22161, 9649, 150, 657>>, <<2929, 1820, 20855, 237, 658>>,
      <<24457, 3125, 28446, 187, 660>>, <<18215, 13425, 17130, 148, 662>>,
      <<5994, 20291, 27365, 234, 663>>, <<30960, 397, 21413, 185, 665>>,
      <<32419, 16777, 25295, 146, 667>>, <<14124, 8689, 2190, 232, 668>>,
      <<15948, 12780, 15235, 183, 670>>, <<29308, 30006, 1368, 145, 672>>,
      <<19935, 7783, 10852, 229, 673>>, <<20251, 4740, 9903, 181, 675>>,
      <<24747, 21248, 10878, 143, 677>>, <<25313, 30501, 20570, 226, 678>>,
      <<30934, 10176, 5406, 179, 680>>, <<19917, 27255, 21048, 141, 682>>,
      <<5900, 29105, 31333, 223, 683>>, <<16704, 1301, 1735, 177, 685>>,
      <<24167, 22286, 31871, 139, 687>>, <<29072, 26202, 10360, 221, 688>>,
      <<13825, 19666, 31647, 174, 690>>, <<26362, 16376, 10571, 138, 692>>,
      <<897, 16391, 23175, 218, 693>>, <<184, 12279, 29598, 172, 695>>,
      <<12849, 22532, 22676, 136, 697>>, <<24807, 31732, 4229, 216, 698>>,
      <<16061, 28165, 28345, 170, 700>>, <<31889, 23928, 2643, 135, 702>>,
      <<28268, 10630, 19048, 213, 703>>, <<7092, 21719, 27880, 168, 705>>,
      <<9476, 6644, 16001, 133, 707>>, <<673, 27149, 2082, 211, 708>>,
      <<11845, 16497, 28193, 166, 710>>, <<4517, 25160, 29973, 131, 712>>,
      <<22997, 28813, 18857, 208, 713>>, <<5646, 6874, 29275, 164, 715>>,
      <<18470, 5720, 11786, 130, 717>>, <<23442, 400, 3826, 206, 718>>,
      <<23087, 23534, 31116, 162, 720>>, <<14651, 8442, 26967, 128, 722>>,
      <<12474, 29418, 22511, 203, 723>>, <<1930, 2361, 941, 161, 725>>,
      <<31977, 28580, 19947, 254, 726>>, <<10604, 11143, 9368, 201, 728>>,
      <<3602, 13767, 4275, 159, 730>>, <<5064, 13929, 19902, 251, 731>>,
      <<29078, 9016, 29920, 198, 733>>, <<23645, 513, 8343, 157, 735>>,
      <<3580, 11271, 21016, 248, 736>>, <<4980, 25218, 18620, 196, 738>>,
      <<14526, 7044, 13135, 155, 740>>, <<22608, 31522, 23275, 245, 741>>,
      <<18157, 613, 8227, 194, 743>>, <<22323, 15605, 18643, 153, 745>>,
      <<30887, 25342, 26667, 242, 746>>, <<3327, 11315, 31496, 191, 748>>,
      <<11113, 11743, 24859, 151, 750>>, <<28735, 14143, 31178, 239, 751>>,
      <<5699, 6487, 22882, 189, 753>>, <<30247, 17031, 31774, 149, 755>>,
      <<31700, 24492, 4026, 237, 756>>, <<29617, 4905, 15142, 187, 758>>,
      <<3429, 23500, 6612, 148, 760>>, <<12445, 22516, 10735, 234, 761>>,
      <<4286, 29375, 8265, 185, 763>>, <<24163, 26360, 14901, 146, 765>>,
      <<29932, 12142, 18524, 231, 766>>, <<30203, 8374, 2243, 183, 768>>,
      <<10516, 23973, 23865, 144, 770>>, <<21370, 2276, 27380, 228, 771>>,
      <<21337, 5390, 29832, 180, 773>>, <<29740, 17806, 728, 143, 775>>,
      <<10288, 6738, 4522, 226, 776>>, <<20791, 22258, 25486, 178, 778>>,
      <<14622, 12403, 11018, 141, 780>>, <<9605, 11439, 15474, 223, 781>>,
      <<10085, 31888, 21964, 176, 783>>, <<18291, 15341, 21959, 139, 785>>,
      <<12607, 7092, 27456, 220, 786>>, <<31056, 10984, 19257, 174, 788>>,
      <<24263, 4432, 776, 138, 790>>, <<6052, 21923, 7687, 218, 791>>,
      <<30329, 5540, 17354, 172, 793>>, <<32454, 25989, 12996, 136, 795>>,
      <<5143, 23310, 21692, 215, 796>>, <<15992, 32487, 16245, 170, 798>>,
      <<27635, 30952, 25845, 134, 800>>, <<11552, 16033, 3923, 213, 801>>,
      <<1776, 14115, 15923, 168, 803>>, <<27701, 5924, 6548, 133, 805>>,
      <<26796, 9451, 19904, 210, 806>>, <<1857, 7406, 16377, 166, 808>>,
      <<12652, 5907, 20632, 131, 810>>, <<18706, 17449, 4087, 208, 811>>,
      <<7622, 7384, 17598, 164, 813>>, <<32171, 23193, 2554, 130, 815>>,
      <<9528, 25614, 21997, 205, 816>>, <<15638, 12608, 19577, 162, 818>>,
      <<30531, 20104, 17844, 128, 820>>, <<19547, 23952, 8087, 203, 821>>,
      <<5396, 25131, 22305, 160, 823>>, <<24433, 21748, 1917, 254, 824>>,
      <<31321, 6837, 27882, 200, 826>>, <<31656, 17688, 25774, 158, 828>>,
      <<14574, 24931, 2084, 251, 829>>, <<6801, 5727, 15834, 198, 831>>,
      <<5013, 31966, 29974, 156, 833>>, <<310, 23543, 3408, 248, 834>>,
      <<22651, 23573, 4700, 196, 836>>, <<12482, 14714, 2130, 155, 838>>,
      <<3737, 29467, 5875, 245, 839>>, <<31986, 2008, 27239, 193, 841>>,
      <<31008, 14320, 7768, 153, 843>>, <<7213, 27087, 9472, 242, 844>>,
      <<5992, 17901, 17902, 191, 846>>, <<16797, 16929, 14112, 151, 848>>,
      <<15682, 5992, 14186, 239, 849>>, <<29188, 21161, 9448, 189, 851>>,
      <<9801, 11937, 21154, 149, 853>>, <<11909, 26452, 20002, 236, 854>>,
      <<20443, 31305, 1866, 187, 856>>, <<23827, 24724, 28885, 147, 858>>,
      <<978, 22748, 26909, 233, 859>>, <<29784, 6329, 27915, 184, 861>>,
      <<16995, 18313, 4530, 146, 863>>, <<12653, 32488, 2125, 231, 864>>,
      <<29436, 6507, 22047, 182, 866>>, <<7909, 24401, 13616, 144, 868>>,
      <<28603, 32710, 11174, 228, 869>>, <<18078, 30501, 17020, 180, 871>>,
      <<9685, 12252, 23368, 142, 873>>, <<30789, 5358, 21276, 225, 874>>,
      <<12106, 15315, 12826, 178, 876>>, <<11052, 19733, 1009, 141, 878>>,
      <<6941, 2760, 32417, 222, 879>>, <<22006, 90, 9454, 176, 881>>,
      <<4338, 22205, 12068, 139, 883>>, <<11124, 16497, 11817, 220, 884>>,
      <<13615, 27756, 6893, 174, 886>>, <<27433, 30790, 23769, 137, 888>>,
      <<17018, 10119, 25001, 217, 889>>, <<17906, 13912, 5136, 172, 891>>,
      <<22925, 26804, 3337, 136, 893>>, <<22383, 17390, 6420, 215, 894>>,
      <<28656, 8929, 4172, 170, 896>>, <<5798, 27253, 16300, 134, 898>>,
      <<11243, 11162, 21599, 212, 899>>, <<15439, 1298, 3992, 168, 901>>,
      <<15219, 19264, 29883, 132, 903>>, <<2915, 1623, 4990, 210, 904>>,
      <<19024, 15888, 4586, 166, 906>>, <<14110, 25590, 11310, 131, 908>>,
      <<23780, 3476, 22117, 207, 909>>, <<1253, 15604, 5946, 164, 911>>,
      <<31247, 6268, 26111, 129, 913>>, <<1566, 3121, 7433, 205, 914>>,
      <<6290, 32412, 8062, 162, 916>>, <<21459, 22430, 8741, 128, 918>>,
      <<7862, 24131, 26462, 202, 919>>, <<10440, 3462, 10927, 160, 921>>,
      <<1635, 13780, 16694, 253, 922>>, <<29433, 28903, 13658, 200, 924>>,
      <<17407, 420, 14530, 158, 926>>, <<28599, 19745, 17073, 250, 927>>,
      <<21758, 16909, 1778, 198, 929>>, <<5587, 53, 18863, 156, 931>>,
      <<2622, 4753, 18607, 247, 932>>, <<15176, 24642, 23578, 195, 934>>,
      <<22119, 15258, 23917, 154, 936>>, <<2585, 14419, 21281, 244, 937>>,
      <<11264, 27265, 13512, 193, 939>>, <<30288, 29491, 29684, 152, 941>>,
      <<22271, 1313, 25083, 241, 942>>, <<29668, 4096, 4338, 191, 944>>,
      <<1632, 29493, 3388, 151, 946>>, <<4316, 21505, 29998, 238, 947>>,
      <<10232, 4098, 28812, 188, 949>>, <<23178, 5248, 10557, 149, 951>>,
      <<29174, 5122, 3247, 236, 952>>, <<28973, 14752, 21388, 186, 954>>,
      <<26426, 15489, 18413, 147, 956>>, <<3447, 18441, 10351, 233, 957>>,
      <<8456, 27554, 14824, 184, 959>>, <<22635, 23813, 26949, 145, 961>>,
      <<26954, 1674, 18531, 230, 962>>, <<3718, 5191, 9111, 182, 964>>,
      <<25039, 29718, 3389, 144, 966>>, <<29222, 31064, 27772, 227, 967>>,
      <<14914, 12572, 4237, 180, 969>>, <<18265, 3031, 13262, 142, 971>>>>

\* int(math.log10(total_experience + 1) * 2) + 1; the y between 2^top and
\* 2^(top + 1) has its step among those from 0.60205 * top - 1 on
get_total_level(L) ==
    Only({LET top  == BitLen(y.m) - 1 + y.e
              from == IF top * 60205 < 200000 THEN 1 ELSE (top * 60205) \div 100000
              to   == IF from + 4 < Len(LOG_STEPS) THEN from + 4 ELSE Len(LOG_STEPS)
          IN  SetMax({k \in from..to :
                        FloatCmp(y, [neg |-> FALSE, m |-> SubSeq(LOG_STEPS[k], 1, 4),
                                     e |-> LOG_STEPS[k][5]]) >= 0}) :
          y \in {FloatAdd(L.total_experience, Float_1_0)}})

(***************************************************************************)
(* CognitiveCycle (cognitive_cycle.py).                                    *)
(***************************************************************************)

\* seq[-n:]
LastN(seq, n) ==
    IF Len(seq) > n THEN SubSeq(seq, Len(seq) - n + 1, Len(seq)) ELSE seq

\* SafetySystem.check_input: the gate's verdict is the environment's
check_input(user_input, verdict) ==
    IF verdict = "allowed" THEN <<TRUE, <<>> >> ELSE <<FALSE, SAMPLE_BLOCK_REASON>>

_perceive(user_input, verdict) ==
    check_input(user_input, verdict)

\* the capacity of working_memory
WM_CAPACITY ==
    20

\* the capacity of memory
MEMORY_CAPACITY ==
    100

_update_working_memory(wm, user_input) ==
    LET appended == Append(wm, [role |-> "user", content |-> user_input])
    IN  IF Len(appended) > WM_CAPACITY THEN LastN(appended, WM_CAPACITY) ELSE appended

\* _apply_attention that returns the whole working memory
AttentionUnwindowed(wm) ==
    wm

_apply_attention(wm) ==
    LastN(wm, 10)

\* an episode is referred to by its id (the cycle that appended it)
_retrieve_memory(mem, user_input) ==
    LET last5 == LastN(mem, 5)
    IN  [i \in 1..Len(last5) |-> last5[i].id]

\* _update_emotion that applies the stimulus of every group the text matches
UpdateEmotionEveryMatch(emo, text) ==
    LET Felt(e, hit, name, by) == IF hit THEN apply_stimulus(e, name, by) ELSE e
        On(t) == Felt(Felt(Felt(Felt(emo, AnyIn(t, EMO_JOY_WORDS), "joy", 30),
                                AnyIn(t, EMO_SADNESS_WORDS), "sadness", 40),
                           AnyIn(t, EMO_ANGER_WORDS), "anger", 30),
                      Contains(text, QMARK), "interest", 20)
    IN  On(Lower(text))

_update_emotion(emo, text) ==
    LET On(t) ==
            IF AnyIn(t, EMO_JOY_WORDS) THEN apply_stimulus(emo, "joy", 30)
            ELSE IF AnyIn(t, EMO_SADNESS_WORDS) THEN apply_stimulus(emo, "sadness", 40)
            ELSE IF AnyIn(t, EMO_ANGER_WORDS) THEN apply_stimulus(emo, "anger", 30)
            ELSE IF Contains(text, QMARK) THEN apply_stimulus(emo, "interest", 20)
            ELSE emo
    IN  On(Lower(text))

\* _infer_intent with the cascade scanned from its last test to its first
InferIntentLastMatch(text) ==
    LET On(t) ==
            IF Contains(t, QMARK) THEN "generic_question"
            ELSE IF AnyIn(t, FUN_WORDS) THEN "want_fun"
            ELSE IF Contains(t, SEARCH_TOKEN) THEN "search_skill"
            ELSE IF AnyIn(t, SUPPORT_WORDS) THEN "seek_support"
            ELSE IF AnyIn(t, ADVICE_WORDS) THEN "ask_advice"
            ELSE IF AnyIn(t, CAPABILITY_WORDS) THEN "ask_capabilities"
            ELSE IF StartsWith(t, CMD_RESET) THEN "reset"
            ELSE IF StartsWith(t, CMD_STATUS) THEN "status"
            ELSE "smalltalk"
    IN  On(Lower(text))

_infer_intent(text) ==
    LET On(t) ==
            IF StartsWith(t, CMD_STATUS) THEN "status"
            ELSE IF StartsWith(t, CMD_RESET) THEN "reset"
            ELSE IF AnyIn(t, CAPABILITY_WORDS) THEN "ask_capabilities"
            ELSE IF AnyIn(t, ADVICE_WORDS) THEN "ask_advice"
            ELSE IF AnyIn(t, SUPPORT_WORDS) THEN "seek_support"
            ELSE IF Contains(t, SEARCH_TOKEN) THEN "search_skill"
            ELSE IF AnyIn(t, FUN_WORDS) THEN "want_fun"
            ELSE IF Contains(t, QMARK) THEN "generic_question"
            ELSE "smalltalk"
    IN  On(Lower(text))

\* _form_goals whose table keeps only the last goal of each intent
FormGoalsLastOnly(intent) ==
    CASE intent = "status"           -> <<"report_internal_state">>
      [] intent = "reset"            -> <<"reset_memory">>
      [] intent = "ask_capabilities" -> <<"describe_capabilities">>
      [] intent = "ask_advice"       -> <<"give_simple_advice">>
      [] intent = "seek_support"     -> <<"show_empathy">>
      [] intent = "search_skill"     -> <<"maybe_online_search">>
      [] intent = "want_fun"         -> <<"offer_simple_game">>
      [] intent = "generic_question" -> <<"try_answer_question">>
      [] OTHER                       -> <<"keep_conversation">>

_form_goals(intent) ==
    CASE intent = "status"           -> <<"report_internal_state">>
      [] intent = "reset"            -> <<"reset_memory">>
      [] intent = "ask_capabilities" -> <<"describe_capabilities">>
      [] intent = "ask_advice"       -> <<"analyze_situation", "give_simple_advice">>
      [] intent = "seek_support"     -> <<"comfort_user", "show_empathy">>
      [] intent = "search_skill"     -> <<"ack_search_skill", "maybe_online_search">>
      [] intent = "want_fun"         -> <<"offer_simple_game">>
      [] intent = "generic_question" -> <<"try_answer_question">>
      [] OTHER                       -> <<"keep_conversation">>

\* x in list
InSeq(x, seq) ==
    \E i \in 1..Len(seq) : seq[i] = x

\* _make_plan that answers a question with the model action whether or not a
\* client was configured
MakePlanModelAlways(intent, goals, has_client) ==
    IF InSeq("reset_memory", goals) THEN <<"do_reset_memory">>
    ELSE IF InSeq("report_internal_state", goals) THEN <<"describe_state">>
    ELSE IF InSeq("try_answer_question", goals) THEN <<"query_llm">>
    ELSE IF InSeq("comfort_user", goals)
      THEN <<"check_recent_emotion", "generate_support_message", "use_empathy_skill">>
    ELSE IF InSeq("describe_capabilities", goals) THEN <<"describe_capabilities">>
    ELSE IF InSeq("ack_search_skill", goals)
      THEN <<"ack_search_skill", "maybe_online_search">>
    ELSE IF InSeq("offer_simple_game", goals) THEN <<"offer_simple_game">>
    ELSE IF InSeq("keep_conversation", goals) THEN <<"keep_conversation">>
    ELSE <<"use_fallback_logic">>

\* _make_plan that tests the status goal before the reset goal
MakePlanStatusFirst(intent, goals, has_client) ==
    IF InSeq("report_internal_state", goals) THEN <<"describe_state">>
    ELSE MakePlanModelAlways(intent, goals, has_client)

_make_plan(intent, goals, has_client) ==
    IF InSeq("reset_memory", goals) THEN <<"do_reset_memory">>
    ELSE IF InSeq("report_internal_state", goals) THEN <<"describe_state">>
    ELSE
      LET plan ==
               (IF InSeq("comfort_user", goals)
                  THEN <<"check_recent_emotion", "generate_support_message">>
                  ELSE <<>>)
            \o (IF InSeq("show_empathy", goals) THEN <<"use_empathy_skill">> ELSE <<>>)
            \o (IF InSeq("describe_capabilities", goals)
                  THEN <<"describe_capabilities">> ELSE <<>>)
            \o (IF InSeq("ack_search_skill", goals) THEN <<"ack_search_skill">> ELSE <<>>)
            \o (IF InSeq("maybe_online_search", goals)
                  THEN <<"maybe_online_search">> ELSE <<>>)
            \o (IF InSeq("offer_simple_game", goals)
                  THEN <<"offer_simple_game">> ELSE <<>>)
            \o (IF InSeq("try_answer_question", goals)
                  THEN <<IF has_client THEN "query_llm" ELSE "use_fallback_logic">>
                  ELSE <<>>)
            \o (IF InSeq("keep_conversation", goals)
                  THEN <<"keep_conversation">> ELSE <<>>)
      IN  IF plan # <<>> THEN plan ELSE <<"use_fallback_logic">>

\* сколько\s+(?:будет\s+)?(\d+)\s*([+\-*/])\s*(\d+) tried at position i: the place
\* where the arithmetic pattern starts, 0 when there is no match at i
HowMuchAt(t, i) ==
    LET p  == i + Len(SKOLKO)
        p1 == SkipSpaces(t, p)
        p2 == SkipSpaces(t, p1 + Len(BUDET))
    IN  IF ~OccursAt(t, SKOLKO, i) \/ p1 <= p THEN 0
        ELSE IF MathSpan(t, p1).ok THEN p1
        ELSE IF OccursAt(t, BUDET, p1) /\ p2 > p1 + Len(BUDET) /\ MathSpan(t, p2).ok
        THEN p2
        ELSE 0

\* the block under "if m:" and "if m2:": <<the equation>> that it returns,
\* <<ValueError>> when int() raises before the try block, <<>> when there is no
\* match or the operation raised inside the try block
TryEquation(m) ==
    IF ~m.ok THEN <<>>
    ELSE IF m.raised # "" THEN <<ValueError>>
    ELSE Only({IF r.raised = "" THEN <<FormatEquation(m.a, m.op, m.b, r.text)>>
               ELSE <<>> :
               r \in {Calc(m.a, m.op, m.b)}})

\* the text returned, or ValueError
_fallback_response(text, emo) ==
    LET \* first and second: how the blocks of m and m2 leave the method
        Pick(t, first, second) ==
            IF AnyIn(t, EMO_JOY_WORDS) THEN MSG_HELLO
            ELSE IF Contains(t, HOW_ARE_YOU)
              THEN F_HOW_1 \o EmotionValue(get_dominant_emotion(emo)[1]) \o F_HOW_2
            ELSE IF first # <<>> THEN first[1]
            ELSE IF second # <<>> THEN second[1]
            ELSE IF AnyIn(t, FB_CAPABILITY_WORDS) THEN MSG_FB_CAPABILITIES
            ELSE IF Contains(t, WHO_ARE_YOU) THEN MSG_FB_WHO
            ELSE IF Contains(text, QMARK) THEN MSG_FB_QUESTION
            ELSE MSG_FB_DEFAULT
        \* re.fullmatch: the match at position 1 must end the text
        Full(t, m) == IF m.ok /\ m.last = Len(t) THEN 1 ELSE 0
    IN  \* from: where the pattern starts in m and in m2, 0 for no match
        Only({Only({Only({Only({Pick(t, tried[1], tried[2]) :
                                tried \in {[n \in 1..2 |->
                                              TryEquation(IF from[n] = 0
                                                          THEN [ok |-> FALSE]
                                                          ELSE MathAt(t, from[n]))]}}) :
                          from \in {<<Full(t, MathSpan(t, 1)),
                                      IF at = {} THEN 0
                                      ELSE HowMuchAt(t, SetMin(at))>>}}) :
                    at \in {{i \in 1..Len(t) : HowMuchAt(t, i) # 0}}}) :
              t \in {Strip(Lower(text))}})

_online_search_response(text, net) ==
    LET query == Strip(text)
    IN  IF query = <<>> THEN [out |-> MSG_EMPTY_QUERY, searches |-> 0]
        ELSE [out |-> answer(query, net), searches |-> 1]

\* llm is how client.chat.completions.create ends: it returns a completion whose
\* message has a text ("returns") or no content ("no_content"), or it raises
\* _generate_llm_response that calls the client again when the call raised
LlmResponseRetrying(has_client, user_input, emo, llm) ==
    IF ~has_client THEN [out |-> _fallback_response(user_input, emo), llm_calls |-> 0]
    ELSE IF llm = "returns" THEN [out |-> SAMPLE_LLM_TEXT, llm_calls |-> 1]
    ELSE IF llm = "no_content" THEN [out |-> None, llm_calls |-> 1]
    ELSE [out |-> MSG_API_ERROR \o SAMPLE_LLM_ERROR, llm_calls |-> 2]

_generate_llm_response(has_client, user_input, emo, llm) ==
    IF ~has_client THEN [out |-> _fallback_response(user_input, emo), llm_calls |-> 0]
    ELSE IF llm = "returns" THEN [out |-> SAMPLE_LLM_TEXT, llm_calls |-> 1]
    ELSE IF llm = "no_content" THEN [out |-> None, llm_calls |-> 1]
    ELSE [out |-> MSG_API_ERROR \o SAMPLE_LLM_ERROR, llm_calls |-> 1]

\* the int nearest to the float x >= 0, the even one of two equally near
RoundHalfEven(x) ==
    IF x.e >= 0 THEN BigShl(x.m, x.e)
    ELSE LET q  == BigShr(x.m, -x.e)
             up == /\ BigBit(x.m, -x.e - 1) = 1
                   /\ ~BigLowZero(x.m, -x.e - 1) \/ BigBit(q, 0) = 1
         IN  IF up THEN BigAdd(q, <<1>>) ELSE q

\* f"{x:.0%}" for a float x >= 0: the float 100 * x printed with no decimals,
\* then "%"
FormatPercent(x) ==
    Only({BigStr(RoundHalfEven(p)) \o <<37>> : p \in {FloatMul(x, FloatOfInt(100))}})

\* get_state, read with the def line at the indentation of the other methods (as
\* written it stands one level deeper than its body, which Python refuses to
\* compile).  mode is self.safety.mode.value.
get_state(count, emo, L, mode) ==
    Only({[cycle       |-> count,
           emotion     |-> EmotionValue(dominant[1]),
           confidence  |-> dominant[2],
           mood        |-> get_mood_description(emo),
           pad         |-> [pleasure  |-> emo.pad.pleasure,
                            arousal   |-> emo.pad.arousal,
                            dominance |-> emo.pad.dominance],
           total_level |-> get_total_level(L),
           safety_mode |-> mode] :
          dominant \in {get_dominant_emotion(emo)}})

\* The result is [out, working_memory, memory, searches, llm_calls, action]:
\* the response (ValueError when generate raised it, which _run_plan does not
\* catch), the memories as the plan leaves them, the collaborator calls made and
\* the branch taken.
_run_plan(plan, user_input, context, s, net, llm) ==
    LET keep == [working_memory |-> s.working_memory, memory |-> s.memory,
                 searches |-> 0, llm_calls |-> 0]
        Say(action, text) == keep @@ [out |-> text, action |-> action]
        Searched(action, r) ==
            [keep EXCEPT !.searches = r.searches] @@ [out |-> r.out, action |-> action]
        Asked(r) ==
            [keep EXCEPT !.llm_calls = r.llm_calls]
            @@ [out |-> r.out, action |-> "query_llm"]
    IN  IF InSeq("do_reset_memory", plan)
          THEN [out |-> MSG_RESET, working_memory |-> <<>>, memory |-> <<>>,
                searches |-> 0, llm_calls |-> 0, action |-> "do_reset_memory"]
        ELSE IF InSeq("describe_state", plan)
          THEN LET state == get_state(s.cycle_count, s.emotion, s.ledger, "normal")
               IN  Say("describe_state",
                       F_STATE_1 \o FormatInt(state.cycle) \o F_STATE_2 \o state.emotion
                       \o F_STATE_3 \o FormatPercent(state.confidence) \o F_STATE_4
                       \o state.mood \o F_STATE_5)
        ELSE IF InSeq("generate_support_message", plan)
          THEN Say("generate_support_message",
                   F_SUPPORT_1 \o EmotionValue(get_dominant_emotion(s.emotion)[1])
                   \o F_SUPPORT_2)
        ELSE IF InSeq("describe_capabilities", plan)
          THEN Say("describe_capabilities", MSG_CAPABILITIES)
        ELSE IF InSeq("use_empathy_skill", plan)
          THEN Say("use_empathy_skill",
                   IF get_level(s.ledger, "empatiya") >= 3
                     THEN MSG_EMPATHY_HIGH ELSE MSG_EMPATHY_LOW)
        ELSE IF InSeq("ack_search_skill", plan)
          THEN Say("ack_search_skill",
                   IF get_level(s.ledger, "poisk_v_internete") = 0
                     THEN MSG_SEARCH_NOVICE ELSE MSG_SEARCH_SKILLED)
        ELSE IF InSeq("maybe_online_search", plan)
          THEN Searched("maybe_online_search",
                        _online_search_response(user_input, net))
        ELSE IF InSeq("offer_simple_game", plan)
          THEN Say("offer_simple_game", MSG_GAME)
        ELSE IF InSeq("query_llm", plan) /\ s.client
          THEN Asked(_generate_llm_response(s.client, user_input, s.emotion, llm))
        ELSE IF /\ InSeq("keep_conversation", plan)
                /\ s.memory # <<>>
                /\ Len(s.memory[Len(s.memory)].input) > 3
          THEN Say("keep_conversation",
                   F_RECENT_1 \o s.memory[Len(s.memory)].input \o F_RECENT_2)
        ELSE
          \* __init__ gives the generator the orchestrator's OnlineBrain
          Only({IF Truthy(generated.out)
                  THEN Searched("generate", generated)
                  ELSE [keep EXCEPT !.searches = generated.searches]
                       @@ [out |-> _fallback_response(user_input, s.emotion),
                           action |-> "fallback"] :
                generated \in {generate(TRUE, user_input, context, net)}})

_update_skills(L, text) ==
    Only({Only({Only({IF AnyIn(t, SKILL_EMPATHY_WORDS)
                        THEN use_skill(L2, "empatiya", TRUE, <<>>).ledger ELSE L2 :
                      L2 \in {IF AnyIn(t, SKILL_SEARCH_WORDS)
                                THEN use_skill(L1, "poisk_v_internete", TRUE, <<>>).ledger
                                ELSE L1}}) :
                L1 \in {IF AnyIn(t, SKILL_GREETING_WORDS)
                          THEN use_skill(L, "privetstvie", TRUE, <<>>).ledger ELSE L}}) :
          t \in {Lower(text)}})

\* the topic counts after the loop over the topic words; a missing key counts 0
UpdateTopics(tp, user_input) ==
    LET On(t) == [n \in 1..Len(TOPIC_WORDS) |->
                    IF Contains(t, TOPIC_WORDS[n]) THEN tp[n] + 1 ELSE tp[n]]
    IN  Only({On(t) : t \in {Lower(user_input)}})

\* _learn without the truncation of memory
LearnUnbounded(s, user_input, out, context, retrieved, intent, goals) ==
    [memory |-> Append(s.memory,
                       [id |-> s.cycle_count, input |-> user_input, output |-> out,
                        context |-> context, retrieved |-> retrieved,
                        intent |-> intent, goals |-> goals]),
     ledger |-> _update_skills(s.ledger, user_input),
     topics |-> UpdateTopics(s.topics, user_input)]

\* _learn that empties the topic counts on a reset turn
LearnPruningOnReset(s, user_input, out, context, retrieved, intent, goals) ==
    LET episode  == [id |-> s.cycle_count, input |-> user_input, output |-> out,
                     context |-> context, retrieved |-> retrieved,
                     intent |-> intent, goals |-> goals]
        appended == Append(s.memory, episode)
    IN  [memory |-> IF Len(appended) > MEMORY_CAPACITY
                      THEN LastN(appended, MEMORY_CAPACITY) ELSE appended,
         ledger |-> _update_skills(s.ledger, user_input),
         topics |-> IF intent = "reset" THEN [n \in 1..Len(TOPIC_WORDS) |-> 0]
                    ELSE UpdateTopics(s.topics, user_input)]

\* The result is [memory, ledger, topics].
_learn(s, user_input, out, context, retrieved, intent, goals) ==
    LET episode  == [id |-> s.cycle_count, input |-> user_input, output |-> out,
                     context |-> context, retrieved |-> retrieved,
                     intent |-> intent, goals |-> goals]
        appended == Append(s.memory, episode)
    IN  [memory |-> IF Len(appended) > MEMORY_CAPACITY
                      THEN LastN(appended, MEMORY_CAPACITY) ELSE appended,
         ledger |-> _update_skills(s.ledger, user_input),
         topics |-> UpdateTopics(s.topics, user_input)]

\* The result is [emotion, ledger].
_cleanup(emo, L) ==
    [emotion |-> decay(emo), ledger |-> tick(L, 1)]

(***************************************************************************)
(* run_cycle.  A state s is [cycle_count, working_memory, memory, emotion, *)
(* ledger, topics, client]; the result is [state, response, info] where    *)
(* info records what the call did.                                         *)
(***************************************************************************)

\* the collaborators whose call raised during the plan's execution
Failed(ran, net, llm) ==
    {c \in {"search"} : ran.searches > 0 /\ net = "raises"}
    \cup {c \in {"model"} : ran.llm_calls > 0 /\ llm = "raises"}

\* what a refused call reports of itself
Refused(user_input) ==
    [op |-> "run_cycle", input |-> user_input, safe |-> FALSE, intent |-> "",
     goals |-> <<>>, plan |-> <<>>, action |-> "", searches |-> 0, llm_calls |-> 0,
     failed |-> {}, raised |-> "", steps |-> <<"_perceive">>]

\* Refuse with the input stored in working memory before the safety check
RefuseAfterStoring(s0, user_input, reason) ==
    [state    |-> [s0 EXCEPT !.working_memory =
                                 _update_working_memory(@, user_input)],
     response |-> WARN_PREFIX \o reason,
     info     |-> Refused(user_input)]

\* Refuse with the counter put back to its value before the call
RefuseUncounted(s0, user_input, reason) ==
    [state    |-> [s0 EXCEPT !.cycle_count = @ - 1],
     response |-> WARN_PREFIX \o reason,
     info     |-> Refused(user_input)]

\* the early return of run_cycle for an input that is not safe
Refuse(s0, user_input, reason) ==
    [state    |-> s0,
     response |-> WARN_PREFIX \o reason,
     info     |-> Refused(user_input)]

\* run_cycle left by the ValueError that _run_plan raised: the statements before
\* the call of _run_plan have run (state s1), those after it have not
Raise(s1, user_input, ran, intent, goals, plan) ==
    [state    |-> [s1 EXCEPT !.working_memory = ran.working_memory,
                             !.memory = ran.memory],
     response |-> ValueError,
     info     |-> [op |-> "run_cycle", input |-> user_input, safe |-> TRUE,
                   intent |-> intent, goals |-> goals, plan |-> plan,
                   action |-> ran.action, searches |-> ran.searches,
                   llm_calls |-> ran.llm_calls, failed |-> {},
                   raised |-> "ValueError",
                   steps |-> <<"_perceive", "_update_working_memory",
                               "_apply_attention", "_retrieve_memory",
                               "_update_emotion", "_infer_intent", "_form_goals",
                               "_make_plan", "_run_plan">>]]

run_cycle(s, user_input, verdict, net, llm) ==
    LET s0        == [s EXCEPT !.cycle_count = @ + 1]
        perceived == _perceive(user_input, verdict)
        Conclude(s2, ran, learned, cleaned, intent, goals, plan) ==
            [state    |-> [s2 EXCEPT !.memory = learned.memory,
                                     !.topics = learned.topics,
                                     !.emotion = cleaned.emotion,
                                     !.ledger = cleaned.ledger],
             response |-> ran.out,
             info     |-> [op |-> "run_cycle", input |-> user_input,
                           safe |-> TRUE, intent |-> intent, goals |-> goals,
                           plan |-> plan, action |-> ran.action,
                           searches |-> ran.searches,
                           llm_calls |-> ran.llm_calls,
                           failed |-> Failed(ran, net, llm),
                           raised |-> "",
                           steps |-> <<"_perceive", "_update_working_memory",
                                       "_apply_attention", "_retrieve_memory",
                                       "_update_emotion", "_infer_intent",
                                       "_form_goals", "_make_plan", "_run_plan",
                                       "_learn", "decay", "tick">>]]
    IN  IF ~perceived[1]
          THEN Refuse(s0, user_input, perceived[2])
          ELSE
    \* one binding for each statement of the method, the last first
    Only({Only({Only({Only({
      IF ran.out = ValueError
        THEN Raise(s1, user_input, ran, intent, goals, plan)
        ELSE
        Only({Only({Only({
        Conclude(s2, ran, learned, cleaned, intent, goals, plan) :
          cleaned   \in {_cleanup(s2.emotion, learned.ledger)}}) :
          learned   \in {_learn(s2, user_input, ran.out, context, retrieved,
                                intent, goals)}}) :
          s2        \in {[s1 EXCEPT !.working_memory = ran.working_memory,
                                    !.memory = ran.memory]}}) :
          ran       \in {_run_plan(plan, user_input, context, s1, net, llm)}}) :
          plan      \in {_make_plan(intent, goals, s0.client)}}) :
          goals     \in {_form_goals(intent)}}) :
          wm        \in {_update_working_memory(s0.working_memory, user_input)},
          context   \in {_apply_attention(_update_working_memory(s0.working_memory,
                                                                 user_input))},
          retrieved \in {_retrieve_memory(s0.memory, user_input)},
          s1        \in {[s0 EXCEPT !.working_memory =
                                        _update_working_memory(@, user_input),
                                    !.emotion = _update_emotion(@, user_input)]},
          intent    \in {_infer_intent(user_input)}})

\* CognitiveCycle.__init__; has_client: an api key was given and the client built
Constructed(has_client) ==
    [cycle_count    |-> 0,
     working_memory |-> <<>>,
     memory         |-> <<>>,
     emotion        |-> EmotionInit,
     ledger         |-> LedgerInit,
     topics         |-> [n \in 1..Len(TOPIC_WORDS) |-> 0],
     client         |-> has_client]

(***************************************************************************)
(* Bounds and inputs of the model.                                         *)
(***************************************************************************)

\* free calls explored in a run of Spec
MaxCalls ==
    3

\* free calls explored in a run of SpecLong
MaxLongCalls ==
    3

\* free operations explored in a run of SpecLedger
MaxOps ==
    3

\* the calls of a run, counted from its first free call, that may be given an
\* overlong sum
MaxSumCalls ==
    1

Inputs ==
    {IN_2PLUS2, IN_5DIV0, IN_RESET, IN_STATUS, IN_HELLO, IN_OK, IN_SAD, IN_SEARCH,
     IN_QUESTION, IN_WORK}

\* '0' * 4301 + '+1': a sum whose first operand has one digit more than int() reads
IN_LONG_SUM ==
    [i \in 1..(MAX_STR_DIGITS + 1) |-> 48] \o <<43, 49>>

\* "работа " and that sum
IN_WORK_LONG_SUM ==
    TOPIC_WORDS[2] \o <<32>> \o IN_LONG_SUM

\* the overlong sums, given among the inputs of the first MaxSumCalls free calls
SumInputs(made) ==
    IF made < MaxSumCalls THEN {IN_LONG_SUM, IN_WORK_LONG_SUM} ELSE {}

Verdicts ==
    {"allowed", "blocked"}

\* how the call of the model client ends
LlmOutcomes ==
    {"returns", "no_content", "raises"}

\* the current state as a record
State ==
    [cycle_count    |-> cycle_count,
     working_memory |-> working_memory,
     memory         |-> memory,
     emotion        |-> emotion,
     ledger         |-> [skills |-> skills, total_experience |-> total_experience,
                         current_cycle |-> current_cycle],
     topics         |-> topics,
     client         |-> client]

\* the variables hold state s
Holds(s) ==
    /\ cycle_count = s.cycle_count
    /\ working_memory = s.working_memory
    /\ memory = s.memory
    /\ emotion = s.emotion
    /\ skills = s.ledger.skills
    /\ total_experience = s.ledger.total_experience
    /\ current_cycle = s.ledger.current_cycle
    /\ topics = s.topics
    /\ client = s.client

\* The variables after the call are those of result r.
Returns(r) ==
    /\ cycle_count' = r.state.cycle_count
    /\ working_memory' = r.state.working_memory
    /\ memory' = r.state.memory
    /\ emotion' = r.state.emotion
    /\ skills' = r.state.ledger.skills
    /\ total_experience' = r.state.ledger.total_experience
    /\ current_cycle' = r.state.ledger.current_cycle
    /\ topics' = r.state.topics
    /\ client' = r.state.client
    /\ response' = r.response
    /\ last_call' = r.info

\* One call of run_cycle.  The input, the safety verdict and what the collaborators
\* answer are the environment's; an answer is drawn only from a collaborator that
\* the call consults (which the state and the input decide, not the answers).
Draw(call, nets, llms) ==
    \E first \in {call["text", "returns"]} :
    \E net \in IF first.info.searches > 0 THEN nets ELSE {"text"} :
    \E llm \in IF first.info.llm_calls > 0 THEN llms ELSE {"returns"} :
       Returns(IF net = "text" /\ llm = "returns" THEN first ELSE call[net, llm])

\* call[net, llm] is the call of run_cycle in which the collaborators answer net
\* and llm
RunCycleOn(inputs, verdicts, nets, llms) ==
    \E user_input \in inputs : \E verdict \in verdicts :
       Draw([net \in nets \cup {"text"}, llm \in llms \cup {"returns"} |->
                run_cycle(State, user_input, verdict, net, llm)],
            nets, llms)

(***************************************************************************)
(* Spec: every input, verdict and collaborator outcome, from construction. *)
(***************************************************************************)

Init ==
    /\ \E has_client \in BOOLEAN : Holds(Constructed(has_client))
    /\ response = None
    /\ last_call = [op |-> "init"]
    /\ warmup = 0
    /\ calls = 0

RunCycle ==
    /\ calls < MaxCalls
    /\ RunCycleOn(Inputs \cup SumInputs(calls), Verdicts, NetOutcomes, LlmOutcomes)
    /\ calls' = calls + 1
    /\ UNCHANGED warmup

Next ==
    RunCycle

Spec ==
    Init /\ [][Next]_vars

(***************************************************************************)
(* SpecLong: runs that open with scripted turns, long enough to fill the   *)
(* memories, followed by free calls.                                       *)
(***************************************************************************)

\* the inputs of the scripted turns, repeated in this order
WarmUpInputs ==
    <<IN_OK, IN_2PLUS2, IN_HELLO>>

\* numbers of scripted turns: none, and each memory one short of its capacity
WarmUpTurns ==
    {0, WM_CAPACITY - 1, MEMORY_CAPACITY - 1}

LongInputs ==
    {IN_2PLUS2, IN_RESET, IN_STATUS, IN_HELLO}

InitLong ==
    /\ Holds(Constructed(FALSE))
    /\ response = None
    /\ last_call = [op |-> "init"]
    /\ warmup \in WarmUpTurns
    /\ calls = 0

WarmUpCycle ==
    /\ warmup > 0
    /\ RunCycleOn({WarmUpInputs[(cycle_count % Len(WarmUpInputs)) + 1]},
                  {"allowed"}, {"text"}, {"returns"})
    /\ warmup' = warmup - 1
    /\ UNCHANGED calls

LongCycle ==
    /\ warmup = 0
    /\ calls < MaxLongCalls
    /\ RunCycleOn(LongInputs \cup SumInputs(calls), Verdicts, {"text"}, {"returns"})
    /\ calls' = calls + 1
    /\ UNCHANGED warmup

NextLong ==
    WarmUpCycle \/ LongCycle

SpecLong ==
    InitLong /\ [][NextLong]_vars

(***************************************************************************)
(* SpecIdle: runs that open with scripted turns, so many that the          *)
(* experience of a skill no turn uses comes within 1 XP of the level where *)
(* growth and decay cancel, followed by free calls.                        *)
(***************************************************************************)

\* numbers of scripted turns: none, and more than the 4706 ticks after which an
\* unused skill has 99 XP of the 99.9 XP where its growth and decay cancel
IdleTurns ==
    {0, 5000}

InitIdle ==
    /\ Holds(Constructed(FALSE))
    /\ response = None
    /\ last_call = [op |-> "init"]
    /\ warmup \in IdleTurns
    /\ calls = 0

\* the inputs of the scripted turns, repeated in this order: the reset keeps the
\* memories short, the other two use a skill each
IdleInputs ==
    <<IN_RESET, IN_HELLO, IN_SAD>>

IdleCycle ==
    /\ warmup > 0
    /\ RunCycleOn({IdleInputs[(cycle_count % Len(IdleInputs)) + 1]},
                  {"allowed"}, {"text"}, {"returns"})
    /\ warmup' = warmup - 1
    /\ UNCHANGED calls

NextIdle ==
    IdleCycle \/ LongCycle

SpecIdle ==
    InitIdle /\ [][NextIdle]_vars

(***************************************************************************)
(* SpecLedger: the operations of SkillSystem called directly, after a      *)
(* scripted number of uses of one skill.                                   *)
(***************************************************************************)

Ledger ==
    [skills |-> skills, total_experience |-> total_experience,
     current_cycle |-> current_cycle]

LedgerHolds(L) ==
    /\ skills' = L.skills
    /\ total_experience' = L.total_experience
    /\ current_cycle' = L.current_cycle

\* numbers of scripted uses: none, and one short of the use count that caps the bonus
WarmUpUses ==
    {0, 99}

\* a default skill that the scripted uses train, one that they do not, and a name
\* the ledger does not know
LedgerNames ==
    {"privetstvie", "analiz", "novyi"}

\* the cycle argument: None, or cycle 0
CycleArguments ==
    {<<>>, <<0>>}

\* the cycles argument of tick: none, the default, enough to pass the dormancy
\* threshold at once, and so many that the decay term exceeds the experience
TickArguments ==
    {0, 1, DORMANCY + 1, 2000}

InitLedger ==
    /\ Holds(Constructed(FALSE))
    /\ response = None
    /\ last_call = [op |-> "init"]
    /\ warmup \in WarmUpUses
    /\ calls = 0

Orchestrator ==
    <<cycle_count, working_memory, memory, emotion, topics, client, response>>

WarmUpUse ==
    /\ warmup > 0
    /\ \E r \in {use_skill(Ledger, "privetstvie", TRUE, <<>>)} :
           /\ LedgerHolds(r.ledger)
           /\ last_call' = [op |-> "use_skill", name |-> "privetstvie",
                            success |-> TRUE, cycle |-> <<>>, xp |-> r.xp]
    /\ warmup' = warmup - 1
    /\ UNCHANGED <<Orchestrator, calls>>

UseSkill ==
    /\ warmup = 0
    /\ calls < MaxOps
    /\ \E name \in LedgerNames : \E success \in BOOLEAN : \E cycle \in CycleArguments :
          \E r \in {use_skill(Ledger, name, success, cycle)} :
              /\ LedgerHolds(r.ledger)
              /\ last_call' = [op |-> "use_skill", name |-> name, success |-> success,
                               cycle |-> cycle, xp |-> r.xp]
    /\ calls' = calls + 1
    /\ UNCHANGED <<Orchestrator, warmup>>

Tick ==
    /\ warmup = 0
    /\ calls < MaxOps
    /\ \E cycles \in TickArguments :
          \E after \in {tick(Ledger, cycles)} :
              /\ LedgerHolds(after)
              /\ last_call' = [op |-> "tick", cycles |-> cycles,
                               lowered |-> {n \in DOMAIN skills :
                                   FloatCmp(after.skills[n].experience,
                                            skills[n].experience) < 0}]
    /\ calls' = calls + 1
    /\ UNCHANGED <<Orchestrator, warmup>>

NextLedger ==
    WarmUpUse \/ UseSkill \/ Tick

SpecLedger ==
    InitLedger /\ [][NextLedger]_vars

(***************************************************************************)
(* SpecSteps: single steps of the pipeline applied to inputs that cover    *)
(* every combination of the keyword groups the step tests.                 *)
(***************************************************************************)

Reverse(seq) ==
    [i \in 1..Len(seq) |-> seq[Len(seq) + 1 - i]]

\* rest, and the texts of rest with a word of words and a space put in front
Prefixed(words, rest) ==
    rest \cup {w \o <<32>> \o r : w \in words, r \in rest}

\* The texts that hold a word of each group of some set of the groups, the groups
\* in the order of the tuple.
RECURSIVE Phrases(_)
Phrases(groups) ==
    IF groups = <<>> THEN {<<>>}
    ELSE Prefixed(Head(groups), Phrases(Tail(groups)))

\* the keyword groups that _infer_intent tests, in the order it tests them
IntentWordGroups ==
    <<{CMD_STATUS}, {CMD_RESET}, CAPABILITY_WORDS, ADVICE_WORDS, SUPPORT_WORDS,
      {SEARCH_TOKEN}, FUN_WORDS, {QMARK}>>

\* every combination of the groups, written in the order of the tests and in the
\* opposite order
IntentTexts ==
    Phrases(IntentWordGroups) \cup Phrases(Reverse(IntentWordGroups))

\* seq with some of its elements left out
RECURSIVE Sublists(_)
Sublists(seq) ==
    IF seq = <<>> THEN {<<>>}
    ELSE LET WithHead(rest) == rest \cup {<<Head(seq)>> \o r : r \in rest}
         IN  WithHead(Sublists(Tail(seq)))

\* the goals that _make_plan tests, in the order it tests them
RECOGNIZED_GOALS ==
    <<"reset_memory", "report_internal_state", "comfort_user", "show_empathy",
      "describe_capabilities", "ack_search_skill", "maybe_online_search",
      "offer_simple_game", "try_answer_question", "keep_conversation">>

\* the goals of _form_goals for which _make_plan has no action
UNPLANNED_GOALS ==
    <<"analyze_situation", "give_simple_advice">>

\* the goals in some choice and in the order of the tables or in the opposite order
GoalLists ==
    Sublists(RECOGNIZED_GOALS \o UNPLANNED_GOALS)
    \cup Sublists(Reverse(RECOGNIZED_GOALS \o UNPLANNED_GOALS))

\* the keyword groups that _update_emotion tests, in the order it tests them
EmotionWordGroups ==
    <<EMO_JOY_WORDS, EMO_SADNESS_WORDS, EMO_ANGER_WORDS, {QMARK}>>

EmotionTexts ==
    Phrases(EmotionWordGroups) \cup Phrases(Reverse(EmotionWordGroups))

\* A step is given a text, or a goal list and an orchestrator with or without a
\* model client.
InitSteps ==
    /\ response = None
    /\ \/ /\ Holds(Constructed(FALSE))
          /\ \E text \in IntentTexts \cup EmotionTexts :
                last_call = [op |-> "input", input |-> text]
       \/ /\ \E has_client \in BOOLEAN : Holds(Constructed(has_client))
          /\ \E goals \in GoalLists : last_call = [op |-> "goals", goals |-> goals]
    /\ warmup = 0
    /\ calls = 0

InferIntent ==
    /\ last_call.op = "input"
    /\ last_call' = [op |-> "_infer_intent", input |-> last_call.input,
                     intent |-> _infer_intent(last_call.input)]
    /\ UNCHANGED <<Orchestrator, skills, total_experience, current_cycle, warmup,
                   calls>>

\* _make_plan for the goal list and _run_plan for its plan, the user input being
\* "ok" and the attention window holding it
MakeAndRunPlan ==
    /\ last_call.op = "goals"
    /\ \E net \in NetOutcomes : \E llm \in LlmOutcomes :
          LET plan == _make_plan("", last_call.goals, client)
              Ran(ran) ==
                  /\ working_memory' = ran.working_memory
                  /\ memory' = ran.memory
                  /\ response' = ran.out
                  /\ last_call' = [op |-> "_run_plan", goals |-> last_call.goals,
                                   plan |-> plan, action |-> ran.action,
                                   searches |-> ran.searches,
                                   llm_calls |-> ran.llm_calls]
          IN  Ran(_run_plan(plan, IN_OK, <<[role |-> "user", content |-> IN_OK]>>,
                            State, net, llm))
    /\ UNCHANGED <<cycle_count, emotion, topics, client, skills, total_experience,
                   current_cycle, warmup, calls>>

\* the first turn of the orchestrator, on a text of the affect keyword groups
FirstTurn ==
    /\ last_call.op = "input"
    /\ last_call.input \in EmotionTexts
    /\ RunCycleOn({last_call.input}, Verdicts, NetOutcomes, LlmOutcomes)
    /\ UNCHANGED <<warmup, calls>>

NextSteps ==
    InferIntent \/ MakeAndRunPlan \/ FirstTurn

SpecSteps ==
    InitSteps /\ [][NextSteps]_vars

(***************************************************************************)
(* The claims.                                                             *)
(***************************************************************************)

\* the call that led to the current state was a run_cycle that passed the safety check
SafeTurn ==
    last_call.op = "run_cycle" /\ last_call.safe

\* C1: after any sequence of run_cycle calls, the working memory holds at most 20
\* entries and the episodic memory at most 100 episodes.
C1_MemoriesBounded ==
    Len(working_memory) <= 20 /\ Len(memory) <= 100

\* both memories are full and have evicted: the oldest episode is no longer the
\* first turn's
C1_BothEvicted ==
    /\ Len(working_memory) = 20
    /\ Len(memory) = 100
    /\ memory[1].id > 1
    /\ cycle_count > 100

\* C2: a run_cycle call whose input the safety check disallows returns a warning
\* and changes nothing but the cycle counter, which increases by 1.
C2_UnsafeTurnFrame ==
    [][(last_call'.op = "run_cycle" /\ ~last_call'.safe) =>
          /\ cycle_count' = cycle_count + 1
          /\ UNCHANGED <<working_memory, memory, emotion, skills, total_experience,
                         current_cycle, topics, client>>
          /\ StartsWith(response', WARN_PREFIX)]_vars

\* an unsafe turn made when both memories, the affect state and the ledger had
\* content to lose
C2_RefusedWithState ==
    /\ last_call.op = "run_cycle"
    /\ ~last_call.safe
    /\ StartsWith(response, WARN_PREFIX)
    /\ memory # <<>>
    /\ working_memory # <<>>
    /\ ~IsZero(total_experience)
    /\ emotion # EmotionInit

\* C3: a safe turn whose inferred intent is reset leaves the working memory and the
\* episodic memory empty and answers with the fixed confirmation text.
C3_ResetClearsBoth ==
    (SafeTurn /\ last_call.intent = "reset") =>
        /\ working_memory = <<>>
        /\ memory = <<>>
        /\ response = MSG_RESET

\* C4: in every reachable state, a safe turn with input "2 + 2" returns exactly
\* "2 + 2 = 4".
C4_TwoPlusTwo ==
    (SafeTurn /\ last_call.input = IN_2PLUS2) => response = OUT_2PLUS2

\* C5: in every reachable state, a safe turn with input "5 / 0" returns the fixed
\* divide-by-zero message and completes normally: its episode is appended and decay
\* and tick have run.
C5_DivisionByZero ==
    (SafeTurn /\ last_call.input = IN_5DIV0) =>
        /\ response = MSG_DIV_ZERO
        /\ memory # <<>>
        /\ memory[Len(memory)].id = cycle_count
        /\ memory[Len(memory)].input = IN_5DIV0
        /\ InSeq("decay", last_call.steps)
        /\ InSeq("tick", last_call.steps)

\* C6: eviction is oldest-first.  A reset turn starts both memories empty, and every
\* safe turn after it appends its input to the working memory and its episode to the
\* episodic memory, the oldest entries leaving when 20 and 100 are exceeded: so after
\* n safe turns since the last reset the memories are the most recent min(n, 20)
\* inputs and min(n, 100) episodes, in arrival order.
C6_OldestFirst ==
    [][(last_call'.op = "run_cycle" /\ last_call'.safe) =>
          IF last_call'.intent = "reset"
            THEN working_memory' = <<>> /\ memory' = <<>>
            ELSE /\ working_memory' =
                      LastN(Append(working_memory,
                                   [role |-> "user", content |-> last_call'.input]), 20)
                 /\ memory' # <<>>
                 /\ memory'[Len(memory')].input = last_call'.input
                 /\ memory'[Len(memory')].id = cycle_count'
                 /\ memory' = LastN(Append(memory, memory'[Len(memory')]), 100)]_vars

\* C7: every run_cycle call returns exactly one response, a string and never None,
\* whatever its collaborators return, and runs each pipeline step at most once.
C7_OneResponse ==
    last_call.op = "run_cycle" =>
        /\ response # None
        /\ response # ValueError
        /\ DOMAIN response = 1..Len(response)
        /\ \A i \in 1..Len(response) : response[i] \in 0..1114111
        /\ \A i, j \in 1..Len(last_call.steps) :
              last_call.steps[i] = last_call.steps[j] => i = j

\* C8: use_skill never lowers the skill's experience: it adds exactly
\* base * min(1 + 0.01 * priorUses, 2.0), base 10 on success and 3 on failure; the
\* gain is within [10, 20] or [3, 6], is the cap from the 100th prior use on, and
\* the use count increases by exactly 1.  The amounts are floats and the sums
\* and products are those of float arithmetic.
C8_UseSkillGain ==
    [][last_call'.op = "use_skill" =>
          LET name   == last_call'.name
              known  == name \in DOMAIN skills
              prior  == IF known THEN skills[name].uses ELSE 0
              before == IF known THEN skills[name].experience ELSE Zero
              base   == IF last_call'.success THEN 10 ELSE 3
          IN  \E bonus \in {FloatAdd(FloatOfInt(1), FloatMul(Float_0_01, FloatOfInt(prior)))} :
              \E gain \in {FloatMul(FloatOfInt(base),
                                    IF FloatCmp(bonus, FloatOfInt(2)) < 0 THEN bonus
                                    ELSE FloatOfInt(2))} :
                 /\ FloatCmp(skills'[name].experience, before) >= 0
                 /\ skills'[name].experience = FloatAdd(before, gain)
                 /\ last_call'.xp = gain
                 /\ FloatCmp(FloatOfInt(base), gain) <= 0
                 /\ FloatCmp(gain, FloatOfInt(2 * base)) <= 0
                 /\ prior >= 100 => gain = FloatOfInt(2 * base)
                 /\ skills'[name].uses = prior + 1]_vars

\* a use made after more than 100 earlier uses of the same skill
C8_UsedBeyondCap ==
    /\ last_call.op = "use_skill"
    /\ skills[last_call.name].uses > 101

\* C9: for every skill and every tick(n), n >= 1, the experience after the tick is
\* at most the experience before plus the passive share 0.5 * n / (number of skills);
\* it is strictly below that sum only if the skill's dormancy exceeds 50; and it is
\* never negative.  The amounts are floats and the sum, the product and the
\* quotient are those of float arithmetic.
C9_TickBounds ==
    [][(last_call'.op = "tick" /\ last_call'.cycles >= 1) =>
          \E share \in {FloatDiv(FloatMul(Float_0_5, FloatOfInt(last_call'.cycles)),
                                 FloatOfInt(Cardinality(DOMAIN skills)))} :
             \A name \in DOMAIN skills :
                \E sum \in {FloatAdd(skills[name].experience, share)} :
                   LET post     == skills'[name].experience
                       dormancy == current_cycle' - skills[name].last_used_cycle
                   IN  /\ FloatCmp(post, sum) <= 0
                       /\ FloatCmp(post, sum) < 0 => dormancy > 50
                       /\ FloatCmp(post, Zero) >= 0]_vars

\* a tick that lowered the experience of some skills and of others not
C9_SomeDecayed ==
    /\ last_call.op = "tick"
    /\ last_call.cycles >= 1
    /\ last_call.lowered # {}
    /\ last_call.lowered # DOMAIN skills

\* total_level() of the current ledger
TotalLevel ==
    get_total_level(Ledger)

\* C10: across any sequence of use_skill and tick operations the ledger's lifetime
\* total experience never decreases, and total_level() never decreases from one
\* state to the next.
C10_TotalNeverDecreases ==
    [][\E before \in {Ledger} : \E after \in {Ledger'} :
          /\ FloatCmp(after.total_experience, before.total_experience) >= 0
          /\ get_total_level(after) >= get_total_level(before)]_vars

\* a tick has lowered a skill's experience after the total level had risen
C10_DecayedAtHigherLevel ==
    /\ last_call.op = "tick"
    /\ last_call.lowered # {}
    /\ TotalLevel > 3

\* the intents of the keyword groups of _infer_intent, highest priority first
INTENT_PRIORITY ==
    <<"status", "reset", "ask_capabilities", "ask_advice", "seek_support",
      "search_skill", "want_fun", "generic_question">>

\* lower-cased text t matches the n-th keyword group
MatchesGroup(n, t) ==
    CASE n = 1 -> StartsWith(t, CMD_STATUS)
      [] n = 2 -> StartsWith(t, CMD_RESET)
      [] n = 3 -> \E w \in CAPABILITY_WORDS : Contains(t, w)
      [] n = 4 -> \E w \in ADVICE_WORDS : Contains(t, w)
      [] n = 5 -> \E w \in SUPPORT_WORDS : Contains(t, w)
      [] n = 6 -> Contains(t, SEARCH_TOKEN)
      [] n = 7 -> \E w \in FUN_WORDS : Contains(t, w)
      [] n = 8 -> Contains(t, QMARK)

\* the keyword groups that the text of the last call matches
MatchedGroups ==
    {n \in 1..Len(INTENT_PRIORITY) : MatchesGroup(n, Lower(last_call.input))}

\* C11: the inferred intent is that of the highest-priority keyword group the
\* input matches, smalltalk when it matches none; an input that starts with
\* /status or /reset is classified as that command whatever else it contains.
C11_IntentFirstMatch ==
    last_call.op = "_infer_intent" =>
       /\ last_call.intent = IF MatchedGroups = {} THEN "smalltalk"
                             ELSE INTENT_PRIORITY[SetMin(MatchedGroups)]
       /\ StartsWith(last_call.input, CMD_STATUS) => last_call.intent = "status"
       /\ StartsWith(last_call.input, CMD_RESET) => last_call.intent = "reset"

\* the intent inferred for a text that matches every group but the command
\* prefixes, the groups written lowest priority first
C11_AllGroupsLowestFirst ==
    /\ last_call.op = "_infer_intent"
    /\ MatchedGroups = 3..8
    /\ StartsWith(last_call.input, QMARK)
    /\ last_call.intent = "ask_capabilities"

\* the actions of a plan for which _run_plan has a handler
EXECUTABLE_ACTIONS ==
    {"do_reset_memory", "describe_state", "generate_support_message",
     "describe_capabilities", "use_empathy_skill", "ack_search_skill",
     "maybe_online_search", "offer_simple_game", "query_llm", "keep_conversation",
     "use_fallback_logic"}

\* the executable action that comes first in plan
EarliestExecutable(plan) ==
    plan[SetMin({i \in 1..Len(plan) : plan[i] \in EXECUTABLE_ACTIONS})]

\* C12: for every goal list built from the recognized goals, the one action that
\* _run_plan executes is the executable action that comes first in the plan that
\* _make_plan built; the rule-based answer is the handler of use_fallback_logic and
\* what keep_conversation falls back on when there is nothing to recall.
C12_RunsEarliestOfPlan ==
    last_call.op = "_run_plan" =>
       \/ last_call.action = EarliestExecutable(last_call.plan)
       \/ /\ last_call.action \in {"generate", "fallback"}
          /\ EarliestExecutable(last_call.plan)
                \in {"use_fallback_logic", "keep_conversation"}

\* the places of step name in seq
PlacesOf(name, seq) ==
    {i \in 1..Len(seq) : seq[i] = name}

\* the steps named in order occur in seq once each, in that order
InOrderOnce(order, seq) ==
    /\ \A k \in 1..Len(order) : Cardinality(PlacesOf(order[k], seq)) = 1
    /\ \A k \in 1..(Len(order) - 1) :
          SetMax(PlacesOf(order[k], seq)) < SetMin(PlacesOf(order[k + 1], seq))

\* the state in which a safe turn with this input computes its response: the
\* state the earlier turns left, with the counter advanced, the input stored
\* and the turn's stimulus applied
BeforeResponse(s, user_input) ==
    [s EXCEPT !.cycle_count = @ + 1,
              !.working_memory = _update_working_memory(@, user_input),
              !.emotion = _update_emotion(@, user_input)]

\* the responses that the plan yields in state s1, one for each outcome of the
\* collaborators that the call consulted
ResponsesIn(s1, call) ==
    {_run_plan(call.plan, call.input, _apply_attention(s1.working_memory), s1,
               net, llm).out :
        net \in IF call.searches > 0 THEN NetOutcomes ELSE {"text"},
        llm \in IF call.llm_calls > 0 THEN LlmOutcomes ELSE {"returns"}}

\* the step's response is one that its plan yields in state s1, and the affect
\* state after the step is that of s1 decayed once
RespondedIn(s1) ==
    /\ response' \in ResponsesIn(s1, last_call')
    /\ emotion' = decay(s1.emotion)

\* C13: a safe turn computes its response from the skill levels and the affect
\* state that earlier turns left (plus its own stimulus), and only then grants
\* XP, appends the episode, decays the affect state once and ticks the ledger
\* once, in that order; an unsafe turn neither decays nor ticks.
C13_DecayThenTickAfterResponse ==
    [][last_call'.op = "run_cycle" =>
          IF last_call'.safe
            THEN /\ \E s1 \in {BeforeResponse(State, last_call'.input)} :
                       RespondedIn(s1)
                 /\ \E granted \in {_update_skills(Ledger, last_call'.input)} :
                       Ledger' = tick(granted, 1)
                 /\ current_cycle' = current_cycle + 1
                 /\ InOrderOnce(<<"_run_plan", "_learn", "decay", "tick">>,
                                last_call'.steps)
            ELSE /\ UNCHANGED <<emotion, skills, total_experience, current_cycle>>
                 /\ \A i \in 1..Len(last_call'.steps) :
                       last_call'.steps[i] \notin {"decay", "tick"}]_vars

\* C14: the model client is called at most once in a turn, only in a turn whose
\* intent is generic_question and only when a client was configured; with no
\* client the plan of a generic question holds use_fallback_logic and not
\* query_llm, and the model is called in no turn.
C14_ModelOnlyForQuestions ==
    last_call.op = "run_cycle" =>
       /\ last_call.llm_calls <= 1
       /\ last_call.llm_calls > 0 =>
             (last_call.safe /\ last_call.intent = "generic_question" /\ client)
       /\ (~client /\ last_call.safe /\ last_call.intent = "generic_question") =>
             /\ InSeq("use_fallback_logic", last_call.plan)
             /\ ~InSeq("query_llm", last_call.plan)
             /\ last_call.action \in {"generate", "fallback"}
       /\ ~client => last_call.llm_calls = 0

\* a generic question answered by the model, after one answered without it
C14_ModelAnswered ==
    /\ SafeTurn
    /\ client
    /\ last_call.intent = "generic_question"
    /\ last_call.llm_calls = 1
    /\ response = SAMPLE_LLM_TEXT
    /\ cycle_count > 1

\* C15: when the model call or the search call raises during a turn, the
\* response is the error text of that collaborator, the collaborator was called
\* once, and the turn runs to its end: the episode with this response is
\* appended, the affect state decays once and the ledger ticks once.
C15_FailureBecomesResponse ==
    [][(last_call'.op = "run_cycle" /\ last_call'.failed # {}) =>
          /\ "model" \in last_call'.failed =>
                /\ response' = MSG_API_ERROR \o SAMPLE_LLM_ERROR
                /\ last_call'.llm_calls = 1
          /\ "search" \in last_call'.failed =>
                /\ response' = MSG_SEARCH_ERROR
                /\ last_call'.searches = 1
          /\ Len(memory') = Len(memory) + 1
          /\ SubSeq(memory', 1, Len(memory)) = memory
          /\ memory'[Len(memory')].input = last_call'.input
          /\ memory'[Len(memory')].output = response'
          /\ emotion' = decay(_update_emotion(emotion, last_call'.input))
          /\ current_cycle' = current_cycle + 1
          /\ InOrderOnce(<<"_run_plan", "_learn", "decay", "tick">>,
                         last_call'.steps)]_vars

\* a later turn whose search raised: the error text is the response and the
\* output of the turn's episode, and the ledger has ticked on every turn
C15_SearchFailed ==
    /\ last_call.op = "run_cycle"
    /\ last_call.failed = {"search"}
    /\ cycle_count > 1
    /\ response = MSG_SEARCH_ERROR
    /\ memory[Len(memory)].output = MSG_SEARCH_ERROR
    /\ current_cycle = cycle_count

\* C16: the cycle counter is 0 at construction and every run_cycle call (safe or
\* unsafe, /status and /reset included) adds exactly 1 to it, so that it equals
\* the number of calls made.
C16_CounterCountsCalls ==
    [][/\ last_call'.op = "run_cycle"
       /\ calls = 0 => cycle_count = 0
       /\ cycle_count' = cycle_count + 1
       /\ cycle_count' = calls']_vars

\* three calls counted: a reset turn, a status turn and an unsafe turn
C16_ThreeKindsCounted ==
    /\ cycle_count = 3
    /\ Len(memory) = 2
    /\ memory[1].intent = "reset"
    /\ memory[2].intent = "status"
    /\ last_call.op = "run_cycle"
    /\ ~last_call.safe

\* the place of a level in the table of levels
LevelIndex(level) ==
    CHOOSE k \in 1..Len(SkillLevel) : SkillLevel[k] = level

\* C17: in every state reached by use_skill and tick, the threshold of each
\* skill's level is at most the skill's experience and the threshold of the next
\* level of the table {0, 100, 500, 2000, 10000}, if there is one, is above it.
C17_LevelMatchesExperience ==
    \A n \in DOMAIN skills :
       LET k == LevelIndex(skills[n].level)
       IN  /\ AtLeast(skills[n].experience, XP_THRESHOLDS[k])
           /\ k < Len(SkillLevel) =>
                 ~AtLeast(skills[n].experience, XP_THRESHOLDS[k + 1])

\* a skill trained past the threshold of 500 that a tick has decayed below the
\* threshold of 100, and that is a novice again
C17_DroppedByDecay ==
    /\ last_call.op = "tick"
    /\ "privetstvie" \in last_call.lowered
    /\ skills["privetstvie"].uses >= 99
    /\ ~AtLeast(skills["privetstvie"].experience, 100)
    /\ skills["privetstvie"].level = "NOVICE"

\* C18: after any sequence of run_cycle calls the skill ledger's current cycle
\* equals the orchestrator's cycle counter.
C18_LedgerCycleIsCounter ==
    current_cycle = cycle_count

\* C19: a safe turn that completes, whatever its intent, appends exactly one
\* episode to what the turn left of the memory (nothing after a reset, the newest
\* 99 at most otherwise); an unsafe turn, and a turn that an exception ended
\* before its end, leave the memory as it was; the episode holds the turn's input
\* and the response returned, at most 5 retrieved episodes, all of earlier turns,
\* and at most 10 context entries, the last being the input.
C19_OneEpisodePerSafeTurn ==
    [][last_call'.op = "run_cycle" =>
          IF last_call'.safe /\ last_call'.raised = ""
            THEN /\ memory' # <<>>
                 /\ SubSeq(memory', 1, Len(memory') - 1)
                       = IF last_call'.action = "do_reset_memory" THEN <<>>
                         ELSE LastN(memory, MEMORY_CAPACITY - 1)
                 /\ LET episode == memory'[Len(memory')]
                    IN  /\ episode.id = cycle_count'
                        /\ episode.input = last_call'.input
                        /\ episode.output = response'
                        /\ Len(episode.retrieved) <= 5
                        /\ \A i \in 1..Len(episode.retrieved) :
                              /\ episode.retrieved[i] < cycle_count'
                              /\ \E j \in 1..Len(memory) :
                                    memory[j].id = episode.retrieved[i]
                        /\ Len(episode.context) \in 1..10
                        /\ episode.context[Len(episode.context)].content
                              = last_call'.input
            ELSE memory' = memory]_vars

\* a reset turn made with a full memory: its episode is the only one left and
\* holds 5 retrieved episodes and 10 context entries
C19_ResetEpisodeOfFullMemory ==
    /\ SafeTurn
    /\ last_call.action = "do_reset_memory"
    /\ cycle_count > MEMORY_CAPACITY
    /\ Len(memory) = 1
    /\ Len(memory[1].retrieved) = 5
    /\ Len(memory[1].context) = 10

\* the stimuli of _update_emotion, highest priority first; weights in hundredths
STIMULI ==
    <<[emotion |-> "joy", weight |-> 30], [emotion |-> "sadness", weight |-> 40],
      [emotion |-> "anger", weight |-> 30], [emotion |-> "interest", weight |-> 20]>>

\* the text matches the keyword group of the n-th stimulus
MatchesStimulus(n, text) ==
    CASE n = 1 -> \E w \in EMO_JOY_WORDS : Contains(Lower(text), w)
      [] n = 2 -> \E w \in EMO_SADNESS_WORDS : Contains(Lower(text), w)
      [] n = 3 -> \E w \in EMO_ANGER_WORDS : Contains(Lower(text), w)
      [] n = 4 -> Contains(text, QMARK)

\* the affect state after a safe turn that applied the first of the stimuli in
\* matched to emo, or none when matched is empty, and then decayed
AfterStimulusOf(emo, matched) ==
    decay(IF matched = {} THEN emo
          ELSE apply_stimulus(emo, STIMULI[SetMin(matched)].emotion,
                              STIMULI[SetMin(matched)].weight))

\* C20: a safe turn applies the stimulus of the highest-priority group its input
\* matches (greeting, sadness, anger, question mark) and no other, none when the
\* input matches no group; an unsafe turn applies none.
C20_OneStimulusFirstMatch ==
    [][last_call'.op = "run_cycle" =>
          /\ emotion' =
                IF last_call'.safe
                  THEN AfterStimulusOf(emotion,
                          {n \in 1..Len(STIMULI) :
                              MatchesStimulus(n, last_call'.input)})
                  ELSE emotion
          /\ emotion = EmotionInit =>
                Cardinality({e \in DOMAIN emotion'.mag : emotion'.mag[e] > 0}) <= 1]_vars

\* a turn whose input matched the four groups, the question mark first, and
\* that raised joy alone
C20_AllMatchedJoyOnly ==
    /\ SafeTurn
    /\ \A n \in 1..Len(STIMULI) : MatchesStimulus(n, last_call.input)
    /\ StartsWith(last_call.input, QMARK)
    /\ emotion.mag["joy"] > 0
    /\ \A e \in DOMAIN emotion.mag : e # "joy" => emotion.mag[e] = 0

\* C21: the plan that _make_plan builds is never empty; with reset_memory among
\* the goals it is the reset action alone, otherwise with report_internal_state
\* among them the status action alone, and when no goal of the list is one that
\* _make_plan recognizes it is the fallback action alone.
C21_PlanNeverEmpty ==
    last_call.op = "_run_plan" =>
       /\ last_call.plan # <<>>
       /\ InSeq("reset_memory", last_call.goals) =>
             last_call.plan = <<"do_reset_memory">>
       /\ (/\ ~InSeq("reset_memory", last_call.goals)
           /\ InSeq("report_internal_state", last_call.goals)) =>
             last_call.plan = <<"describe_state">>
       /\ (\A i \in 1..Len(last_call.goals) :
                ~InSeq(last_call.goals[i], RECOGNIZED_GOALS)) =>
             last_call.plan = <<"use_fallback_logic">>

\* the plan of a goal list that holds the status goal before the reset goal, and
\* other goals besides
C21_ResetOverStatus ==
    /\ last_call.op = "_run_plan"
    /\ Len(last_call.goals) > 3
    /\ \E i, j \in 1..Len(last_call.goals) :
          /\ i < j
          /\ last_call.goals[i] = "report_internal_state"
          /\ last_call.goals[j] = "reset_memory"
    /\ last_call.plan = <<"do_reset_memory">>

\* C22: no run_cycle call, a /reset turn included, lowers the count of a topic;
\* a safe turn adds exactly 1 to the count of each of the five topic words that
\* occurs in the lower-cased input and nothing to the others, and an unsafe
\* turn leaves every count as it was.
C22_TopicsOnlyAccumulate ==
    [][last_call'.op = "run_cycle" =>
          \E t \in {Lower(last_call'.input)} :
             \A n \in 1..Len(TOPIC_WORDS) :
                /\ topics'[n] >= topics[n]
                /\ topics'[n] - topics[n] =
                      IF last_call'.safe /\ Contains(t, TOPIC_WORDS[n])
                        THEN 1 ELSE 0]_vars

\* the lowest exponent among the lifetime total and the experience of the skills
LowestExponent ==
    SetMin({total_experience.e} \cup {skills[n].experience.e : n \in DOMAIN skills})

\* the float x >= 0 as a whole number of units of 2^LowestExponent
InUnits(x) ==
    BigShl(x.m, x.e - LowestExponent)

\* the sum, in units, of the experience of the skills named in names
RECURSIVE ExperienceOf(_)
ExperienceOf(names) ==
    IF names = {} THEN <<>>
    ELSE LET n == CHOOSE x \in names : TRUE
         IN  BigAdd(InUnits(skills[n].experience), ExperienceOf(names \ {n}))

\* the lifetime total compared with the sum of the experience of all skills, the
\* sum taken without rounding: -1, 0, 1 for below, equal, above
TotalAgainstSum ==
    BigCmp(InUnits(total_experience), ExperienceOf(DOMAIN skills))

\* No tick has run with a skill dormant: no cycle argument is negative, so a
\* skill's dormancy never exceeded the current cycle.
NeverDecayed ==
    current_cycle <= DORMANCY

\* no fewer than the operations made so far: every use_skill has raised one use
\* count by one, and calls counts the ticks among others
RECURSIVE UsesOf(_)
UsesOf(names) ==
    IF names = {} THEN 0
    ELSE LET n == CHOOSE x \in names : TRUE
         IN  skills[n].uses + UsesOf(names \ {n})

\* The distance of total and sum is within what the roundings can add up to:
\* every operation rounds the total once and a skill's experience at most
\* twice, each time by no more than 2^-53 of the value, so the distance is at
\* most 4 * (operations + 1) * 2^-53 of the total.
WithinRounding ==
    \E total \in {InUnits(total_experience)} :
    \E sum \in {ExperienceOf(DOMAIN skills)} :
       BigCmp(BigShl(IF BigCmp(total, sum) >= 0 THEN BigSub(total, sum)
                     ELSE BigSub(sum, total), MANT_BITS - 2),
              BigMulAdd(total, UsesOf(DOMAIN skills) + calls + 1, 0)) <= 0

\* C23 as stated: in every state reached by use_skill and tick(n >= 0) the
\* lifetime total is at least the sum of the skills' experience, and equal to
\* it as long as no skill has been decayed.
C23_TotalIsSumUntilDecay ==
    /\ TotalAgainstSum >= 0
    /\ NeverDecayed => TotalAgainstSum = 0

\* C23 as it holds: the lifetime total is at least the sum of the skills'
\* experience up to the rounding of the arithmetic, and as long as no skill has
\* been decayed the two differ by no more than that rounding.
C23_TotalIsSumUpToRounding ==
    /\ TotalAgainstSum < 0 => WithinRounding
    /\ NeverDecayed => WithinRounding

\* a ledger, used and ticked but never decayed, whose skills have more
\* experience between them than the lifetime total, by the rounding of the
\* shares alone
C23_SharesRounded ==
    /\ last_call.op = "tick"
    /\ NeverDecayed
    /\ current_cycle > 1
    /\ TotalAgainstSum < 0
    /\ WithinRounding

\* C24: on every turn, the action that plan execution runs is neither
\* maybe_online_search nor use_empathy_skill; a plan that holds
\* maybe_online_search runs ack_search_skill (and makes no search), a plan that
\* holds use_empathy_skill runs generate_support_message.
C24_SearchAndEmpathyShadowed ==
    (last_call.op = "run_cycle" /\ last_call.safe) =>
        /\ last_call.action \notin {"maybe_online_search", "use_empathy_skill"}
        /\ InSeq("maybe_online_search", last_call.plan) =>
              /\ InSeq("ack_search_skill", last_call.plan)
              /\ last_call.action = "ack_search_skill"
              /\ last_call.searches = 0
        /\ InSeq("use_empathy_skill", last_call.plan) =>
              /\ InSeq("generate_support_message", last_call.plan)
              /\ last_call.action = "generate_support_message"

\* both plans have been executed: a search turn acknowledged after a support
\* turn whose episode is in the memory
C24_BothShadowed ==
    /\ last_call.op = "run_cycle"
    /\ last_call.safe
    /\ InSeq("maybe_online_search", last_call.plan)
    /\ last_call.action = "ack_search_skill"
    /\ \E i \in 1..Len(memory) : memory[i].intent = "seek_support"

\* C25: under the orchestrator's schedule (five skills, one tick(1) per safe
\* turn) a skill that was never passed to use_skill has less experience than the
\* threshold of the second level, 100 XP, and is at the lowest level.
C25_UnusedSkillStaysNovice ==
    \A n \in DOMAIN skills :
        skills[n].uses = 0 =>
            /\ ~AtLeast(skills[n].experience, XP_THRESHOLDS[2])
            /\ skills[n].level = SkillLevel[1]

\* thousands of turns on, an unused skill has between 99 and 100 XP
C25_BalancedBelowThreshold ==
    /\ current_cycle > 4706
    /\ Cardinality(DOMAIN skills) = 5
    /\ skills["analiz"].uses = 0
    /\ AtLeast(skills["analiz"].experience, 99)
    /\ ~AtLeast(skills["analiz"].experience, 100)
    /\ skills["analiz"].level = "NOVICE"
    /\ skills["privetstvie"].uses > 0
    /\ skills["empatiya"].uses > 0

====
